---- MODULE Spec2Model ----
(***************************************************************************)
(* Tech-Stack-Crawler: the batch orchestrator (batch_processor.py), the    *)
(* dedup ledger (job_tracker.py), the store (db.py) and the scheduler      *)
(* (scheduler.py) as one state machine.                                    *)
(*                                                                         *)
(* Strings that the code inspects (URLs, titles) are sequences of          *)
(* characters, so that split/lower/substring are computed, not assumed.    *)
(***************************************************************************)
EXTENDS Integers, Sequences, FiniteSets, TLC

(***************************************************************************)
(* Bounds of the model                                                     *)
(***************************************************************************)
MaxJobs == 3
MaxBatchSize == 2
MaxConcurrent == 2

(***************************************************************************)
(* Program constants                                                       *)
(***************************************************************************)
MinContentLen == 500

\* Python's None, for an optional string, an optional text and an optional dict
NoStr == <<"<None>">>
NoContent == -1
NoData == [kind |-> "none"]
NoError == <<>>

Min(a, b) == IF a < b THEN a ELSE b

(***************************************************************************)
(* Strings                                                                 *)
(***************************************************************************)
\* str.lower() on one character
LowerMap ==
  ("A" :> "a") @@ ("B" :> "b") @@ ("C" :> "c") @@ ("D" :> "d") @@ ("E" :> "e") @@ ("F"
  :> "f") @@ ("G" :> "g") @@ ("H" :> "h") @@ ("I" :> "i") @@ ("J" :> "j") @@ ("K" :>
  "k") @@ ("L" :> "l") @@ ("M" :> "m") @@ ("N" :> "n") @@ ("O" :> "o") @@ ("P" :> "p")
  @@ ("Q" :> "q") @@ ("R" :> "r") @@ ("S" :> "s") @@ ("T" :> "t") @@ ("U" :> "u") @@
  ("V" :> "v") @@ ("W" :> "w") @@ ("X" :> "x") @@ ("Y" :> "y") @@ ("Z" :> "z")

LowerChar(c) == IF c \in DOMAIN LowerMap THEN LowerMap[c] ELSE c

Lower(s) == [k \in 1..Len(s) |-> LowerChar(s[k])]

\* Python's `pattern in text`
Contains(text, pattern) ==
  \E k \in 0..(Len(text) - Len(pattern)) : SubSeq(text, k + 1, k + Len(pattern)) = pattern

\* str.strip(): leading and trailing blanks removed
RECURSIVE StripLeft(_)
StripLeft(s) == IF s # <<>> /\ Head(s) = " " THEN StripLeft(Tail(s)) ELSE s
RECURSIVE StripRight(_)
StripRight(s) ==
  IF s # <<>> /\ s[Len(s)] = " " THEN StripRight(SubSeq(s, 1, Len(s) - 1)) ELSE s
Strip(s) == StripRight(StripLeft(s))

\* str.split(sep) for a separator of one character
RECURSIVE Split(_, _)
Split(s, sep) ==
  IF \E k \in 1..Len(s) : s[k] = sep
  THEN LET first == CHOOSE k \in 1..Len(s) :
                      s[k] = sep /\ \A m \in 1..(k - 1) : s[m] # sep
       IN  <<SubSeq(s, 1, first - 1)>> \o Split(SubSeq(s, first + 1, Len(s)), sep)
  ELSE <<s>>

\* Python truthiness of an optional string: None and "" are falsy
Truthy(s) == s # NoStr /\ s # <<>>

\* url.split('?')[0]: the characters before the first '?'
SplitQuery(url) ==
  IF \E k \in 1..Len(url) : url[k] = "?"
  THEN LET first == CHOOSE k \in 1..Len(url) :
                       /\ url[k] = "?"
                       /\ \A m \in 1..(k - 1) : url[m] # "?"
       IN  SubSeq(url, 1, first - 1)
  ELSE url

(***************************************************************************)
(* Titles, companies and URLs of the model                                 *)
(***************************************************************************)
TitleDevOps == <<"D","e","v","O","p","s"," ","E","n","g","i","n","e","e","r">>
TitleNurse == <<"C","l","i","n","i","c","a","l"," ","N","u","r","s","e">>
TitleSwe == <<"S","o","f","t","w","a","r","e"," ","E","n","g","i","n","e","e","r">>
NullSentinel == <<"n","u","l","l">>
TitleMlResearch == <<"M","L"," ","R","e","s","e","a","r","c","h"," ","E","n","g","i","n","e","e","r">>
TitleDataScientist == <<"D","a","t","a"," ","S","c","i","e","n","t","i","s","t">>
TitleHtml == <<"H","T","M","L"," ","D","e","v","e","l","o","p","e","r">>
TitleTester == <<"Q","A"," ","T","e","s","t","e","r">>

\* skill names as an answer's "skills" lists can have them
SkillJavascript == <<"j","a","v","a","s","c","r","i","p","t">>
SkillCpp == <<"c","+","+">>
SkillC == <<"c">>
SkillR == <<"r">>
SkillCiCd == <<"c","i","/","c","d">>
SkillReactVue == <<"R","e","a","c","t","/","V","u","e">>
SkillProblemSolving == <<"p","r","o","b","l","e","m"," ","s","o","l","v","i","n","g">>
SkillCSlashCpp == <<"C","/","C","+","+">>
SkillPythonPadded == <<" ","P","y","t","h","o","n"," ">>
SkillX == <<"x">>
SkillEmpty == <<>>
SkillAB == <<"a","/","b">>
SkillNodeReact == <<"n","o","d","e"," ","/"," ","R","e","a","c","t">>
SkillMlAi == <<"M","a","c","h","i","n","e"," ","L","e","a","r","n","i","n","g","/","A","I">>
SkillLongList == <<"T","e","n","s","o","r","F","l","o","w","/","P","y","T","o","r","c","h","/","K","e","r","a","s">>
SkillCppTwice == <<"c","+","+","/","C","+","+">>
SkillRust == <<"R","u","s","t">>
SkillRustLower == <<"r","u","s","t">>
RawSkills ==
  { SkillJavascript, SkillCpp, SkillC, SkillR,
    SkillCiCd, SkillReactVue, SkillProblemSolving, SkillCSlashCpp,
    SkillPythonPadded, SkillX, SkillEmpty, SkillAB,
    SkillNodeReact, SkillMlAi, SkillLongList, SkillCppTwice,
    SkillRust, SkillRustLower }

\* the titles categorize_job_title is called with
CatTitles == { NoStr, <<>>, TitleDevOps, TitleSwe, TitleNurse, TitleMlResearch,
               TitleDataScientist, TitleHtml, TitleTester }

UrlA == <<"a">>
UrlAq == <<"a","?","q">>
UrlAr == <<"a","?","r">>
UrlB == <<"b">>
UrlC == <<"c">>

\* JobPosting (github_scraper.py): company, role, location, apply_url
JobPosting(c, r, u) == [company |-> c, role |-> r, location |-> "Remote", apply_url |-> u]

\* The listing the model draws its candidate lists from
CoAcme == <<"A","c","m","e">>
CoBirch == <<"B","i","r","c","h">>
CoInitech == <<"I","n","i","t","e","c","h">>

Listing == << JobPosting(CoAcme, TitleSwe, UrlAq),
              JobPosting(CoBirch, TitleNurse, UrlB),
              JobPosting(CoAcme, TitleSwe, UrlA),
              JobPosting(CoBirch, TitleSwe, UrlAq),
              JobPosting(CoAcme, TitleSwe, UrlAr) >>

(***************************************************************************)
(* State                                                                   *)
(***************************************************************************)
VARIABLES
  jobs,                  \* process_all's argument: the candidate list
  batch_size,            \* process_all's argument
  max_concurrent,        \* BatchProcessor.max_concurrent
  delay_between_batches, \* BatchProcessor.delay_between_batches
  pc,                    \* position in process_all / process_batch
  i,                     \* loop variable of process_all (0-based offset)
  batch,                 \* jobs[i:i + batch_size] of the current iteration
  task,                  \* state of the process_single_job task per candidate
  task_result,           \* what each task returned to gather
  sem_value,             \* asyncio.Semaphore._value
  waiters,               \* asyncio.Semaphore._waiters (FIFO)
  cur,                   \* task running between two awaits (0: the loop is free)
  html_content,          \* local of the running task
  parsed,                \* local of the running task
  done_order,            \* tasks of the awaited batch, in the order they completed
  fault,                 \* per task: the step at which an error occurred ("none" if none)
  processed_results,     \* process_batch's result list
  stat_k,                \* results already counted by the stats loop
  processed, succeeded, failed,
  all_results,           \* process_all's accumulated results
  batch_log,             \* the slices process_all has formed so far
  db_jobs,               \* table jobs: its rows in the order of their SERIAL id
  db_failed,             \* table failed_urls: its rows in the order of their SERIAL id
  db_skills,             \* table skills: its rows in the order of their SERIAL id
  db_job_skills,         \* table job_skills: its rows <<job_id, skill_id>> in insertion order
  s_pc,                  \* position in run_scheduled_pipeline / JobScheduler.run_once
  skip_failed,           \* JobScheduler.skip_failed
  stats,                 \* what run_once returned
  p_pc,                  \* position in run_batch_pipeline
  p_caller,              \* who called run_batch_pipeline
  p_args,                \* run_batch_pipeline's arguments
  p_results,             \* what run_batch_pipeline returned
  readme,                \* the postings the listing source has
  listing_fetches,       \* calls of get_job_urls so far
  filter_calls,          \* calls of filter_new_jobs so far
  orchestrations,        \* calls of process_all so far
  f_pc,                  \* position of a filter_new_jobs call
  f_jobs,                \* filter_new_jobs: its argument jobs
  f_skip_failed,         \* filter_new_jobs: its argument skip_failed
  new_jobs,              \* filter_new_jobs: the list it returns
  skipped_processed,     \* filter_new_jobs: the count it prints
  skipped_failed,        \* filter_new_jobs: the count it prints
  d_pc,                  \* position in JobScheduler.run_daemon
  running,               \* JobScheduler._running
  interval_seconds,      \* JobScheduler.interval_hours * 3600
  sleep_seconds,         \* local of run_daemon
  run_count,             \* local of run_daemon (kept up to MaxRuns)
  slept,                 \* argument of the asyncio.sleep the daemon awaits
  signal_at,             \* where run_daemon was when the first signal arrived
  late_sleep,            \* seconds of the sleeps that ended after the first signal
  oracle,                \* what fetcher, extractor and store do for each url
  first_count,           \* rows of jobs when the pipeline was started again
  now,                   \* the store's clock (CURRENT_TIMESTAMP)
  rf_call,               \* the call of save_failed_url / clear_failed_urls made last
  rf_count,              \* per url: calls of save_failed_url since the table was cleared
  calls,                 \* direct calls of save_job_data and categorize_job_title so far
  c_title,               \* categorize_job_title: its argument title in the last call
  c_category,            \* categorize_job_title: what the last call returned
  n_skill_name,          \* save_job_data: loop variable skill_name, line 284
  n_normalized_skills,   \* save_job_data: normalize_skill(skill_name), line 286
  m_pc,                  \* scheduler.py main: position
  args,                  \* scheduler.py main: the parsed command line
  printed,               \* scheduler.py main: what the mode wrote to stdout
  summary                \* process_all: the totals and the rate it printed

orch_vars == << jobs, batch_size, max_concurrent, delay_between_batches, pc, i,
                batch, task, task_result, sem_value, waiters, cur, html_content,
                parsed, done_order, fault, processed_results, stat_k, processed,
                succeeded, failed, all_results, batch_log >>
db_vars == << db_jobs, db_failed, db_skills, db_job_skills >>
sched_vars == << s_pc, skip_failed, stats >>
pipe_vars == << p_pc, p_caller, p_args, p_results, readme, listing_fetches, filter_calls, orchestrations >>
filt_vars == << f_pc, f_jobs, f_skip_failed, new_jobs, skipped_processed, skipped_failed >>
daemon_vars == << d_pc, running, interval_seconds, sleep_seconds, run_count, slept,
                  signal_at, late_sleep >>
rerun_vars == << oracle, first_count >>
ledger_vars == << now, rf_call, rf_count >>
store_vars == << calls, c_title, c_category, n_skill_name, n_normalized_skills >>
main_vars == << m_pc, args, printed >>
report_vars == << summary >>
aux_vars == << daemon_vars, rerun_vars, ledger_vars, store_vars, main_vars,
              report_vars >>
env_vars == << sched_vars, pipe_vars, filt_vars, aux_vars >>
vars == << orch_vars, db_vars, env_vars >>

(***************************************************************************)
(* ProcessResult and the values the external collaborators can return      *)
(***************************************************************************)
ProcessResult(j, s, e, p) == [job |-> j, success |-> s, error |-> e, parsed_data |-> p]

\* the slot of a task gather has no result for yet
NoResult == [job |-> NoData, success |-> FALSE, error |-> <<"pending">>, parsed_data |-> NoData]

\* scrape_page returns result.markdown: None, or a text (kept by its length)
ContentLens == {MinContentLen - 1, MinContentLen}
FetchContents == {NoContent, 0} \cup ContentLens
ContentLen(c) == IF c = NoContent THEN 0 ELSE c
ContentTruthy(c) == c # NoContent /\ c > 0

\* parse_job_text returns None on any error, else json.loads of the answer
\* the object's "skills" is a dict category -> list of names, kept in its order
NoSkills == <<>>
SkillsDevOps ==
  << << "languages", << <<"p","y","t","h","o","n">>, <<"C","/","C","+","+">> >> >>,
     << "tools", << <<"D","o","c","k","e","r">> >> >> >>
SkillsSwe ==
  << << "languages", << <<"P","y","t","h","o","n">> >> >>,
     << "frameworks", << <<"R","e","a","c","t","/","V","u","e">> >> >> >>
ParsedDict(t, c, sk) == [kind |-> "dict", job_title |-> t, company |-> c, skills |-> sk]
ParsedNone == [kind |-> "none", job_title |-> NoStr, company |-> NoStr, skills |-> NoSkills]
ParsedList == [kind |-> "list", job_title |-> NoStr, company |-> NoStr, skills |-> NoSkills]
ParseOutcomes == { ParsedNone, ParsedList,
                   ParsedDict(TitleDevOps, CoInitech, SkillsDevOps),
                   ParsedDict(NoStr, NullSentinel, SkillsSwe) }
\* a check that takes every answer for an object
ParsedAlwaysTruthy(p) == TRUE
ParsedTruthy(p) == p.kind # "none"

ErrScrape == <<"TimeoutError">>
ErrAttribute == <<"AttributeError">>
ErrConnect == <<"OperationalError">>
ErrParsing == <<"Parsing failed">>
ErrTooShort(c) == <<"Scraping failed or content too short", ContentLen(c)>>

PersistOutcomes == {"ok", "connect_fails", "write_fails"}

\* run_once has not returned yet
NoStats == [success |-> FALSE, keys |-> {}]

Terminal == {"SUCCESS", "FAILED"}
HoldsSlot == {"Fetching", "Extracting", "Enriching", "Persisting"}

(***************************************************************************)
(* db.py                                                                   *)
(***************************************************************************)
NON_TECH_JOB_PATTERNS ==
  { <<"m","e","t","e","o","r","o","l","o","g","i","s","t">>,
    <<"w","e","a","t","h","e","r">>, <<"c","l","i","n","i","c","a","l">>,
    <<"n","u","r","s","e">>, <<"n","u","r","s","i","n","g">>,
    <<"m","e","d","i","c","a","l">>, <<"p","h","y","s","i","c","i","a","n">>,
    <<"p","h","a","r","m","a","c","i","s","t">>,
    <<"e","n","v","i","r","o","n","m","e","n","t","a","l"," ","p","e","r","m","i","t","t","i","n","g">>,
    <<"s","t","o","r","m"," ","w","a","t","e","r">>,
    <<"w","a","s","t","e","w","a","t","e","r">>,
    <<"g","r","i","d"," ","p","l","a","n","n","i","n","g">>,
    <<"r","e","n","e","w","a","b","l","e"," ","e","n","e","r","g","y">>,
    <<"p","o","w","e","r"," ","g","e","n","e","r","a","t","i","o","n">>,
    <<"n","u","c","l","e","a","r">>,
    <<"e","a","r","t","h"," ","s","c","i","e","n","c","e">>,
    <<"g","e","o","l","o","g","i","s","t">>, <<"c","h","e","m","i","s","t","r","y">>,
    <<"b","i","o","l","o","g","i","s","t">>, <<"e","c","o","l","o","g","y">>,
    <<"m","a","r","k","e","t","i","n","g">>, <<"s","a","l","e","s">>,
    <<"a","c","c","o","u","n","t","i","n","g">>,
    <<"f","i","n","a","n","c","e"," ","a","n","a","l","y","s","t">>, <<"h","r"," ">>,
    <<"h","u","m","a","n"," ","r","e","s","o","u","r","c","e","s">>,
    <<"l","e","g","a","l">>, <<"a","t","t","o","r","n","e","y">>,
    <<"p","a","r","a","l","e","g","a","l">>, <<"r","e","c","r","u","i","t","e","r">>,
    <<"r","e","c","r","u","i","t","i","n","g">>,
    <<"p","u","b","l","i","c"," ","a","f","f","a","i","r","s">>,
    <<"p","o","l","i","c","y">>,
    <<"s","e","c","u","r","i","t","y"," ","i","n","v","e","s","t","i","g","a","t","o","r">> }

\* lines 476..479: no pattern occurs in the lower-cased title
NoPatternIn(title_lower) ==
  \A pattern \in NON_TECH_JOB_PATTERNS : ~Contains(title_lower, pattern)

\* a title check that lets every title through
IsTechAlways(title) == TRUE

\* lines 471..481
TechRelated(title) == Truthy(title) /\ NoPatternIn(Lower(title))

\* is_tech_related_job on the titles of the model, computed once
TechRelatedOn == [title \in CatTitles |-> TechRelated(title)]

is_tech_related_job(title) ==
  IF title \in CatTitles THEN TechRelatedOn[title] ELSE TechRelated(title)

\* JOB_CATEGORIES: the rules in their order, each with its keywords
JOB_CATEGORIES ==
  << << "Machine Learning / AI",
        { <<"m","a","c","h","i","n","e"," ","l","e","a","r","n","i","n","g">>, <<"m","l">>,
          <<" ","a","i"," ">>,
          <<"a","r","t","i","f","i","c","i","a","l"," ","i","n","t","e","l","l","i","g","e","n","c","e">>,
          <<"d","e","e","p"," ","l","e","a","r","n","i","n","g">>, <<"l","l","m">>,
          <<"n","e","u","r","a","l">>, <<"n","l","p">>,
          <<"c","o","m","p","u","t","e","r"," ","v","i","s","i","o","n">>,
          <<"g","e","n","a","i">>, <<"g","e","n"," ","a","i">>,
          <<"a","i"," ","a","g","e","n","t">>, <<"a","i"," ","s","w">>,
          <<"a","i"," ","i","n","t","e","r","n">>,
          <<"c","o","m","p","u","t","a","t","i","o","n","a","l">> } >>,
     << "Data Science",
        { <<"d","a","t","a"," ","s","c","i","e","n","c","e">>,
          <<"d","a","t","a"," ","s","c","i","e","n","t","i","s","t">>,
          <<"d","a","t","a"," ","a","n","a","l","y","s","t">>,
          <<"b","u","s","i","n","e","s","s"," ","i","n","t","e","l","l","i","g","e","n","c","e">>,
          <<"a","n","a","l","y","t","i","c","s">>,
          <<"d","a","t","a"," ","e","n","g","i","n","e","e","r","i","n","g">>,
          <<"d","a","t","a"," ","i","n","t","e","r","n">>,
          <<"d","a","t","a"," ","p","l","a","t","f","o","r","m">>,
          <<"d","a","t","a"," ","f","a","b","r","i","c">>,
          <<"d","a","t","a"," ","m","a","n","a","g","e","m","e","n","t">>,
          <<"f","a","i","l","u","r","e"," ","a","n","a","l","y","s","i","s"," ","d","a","t","a">>,
          <<"p","r","i","c","i","n","g"," ","d","a","t","a">>,
          <<"r","i","s","k"," ","a","n","a","l","y","s","i","s">> } >>,
     << "Research",
        { <<"r","e","s","e","a","r","c","h">>, <<"s","c","i","e","n","t","i","s","t">>,
          <<"p","h","d">>, <<"r","&","d">>, <<"b","e","l","l"," ","l","a","b","s">> } >>,
     << "DevOps / Infrastructure",
        { <<"d","e","v","o","p","s">>, <<"c","l","o","u","d">>, <<"s","r","e">>,
          <<"i","n","f","r","a","s","t","r","u","c","t","u","r","e">>,
          <<"p","l","a","t","f","o","r","m"," ","e","n","g","i","n","e","e","r">>,
          <<"r","e","l","i","a","b","i","l","i","t","y">>,
          <<"k","u","b","e","r","n","e","t","e","s">>, <<"a","w","s">>, <<"a","z","u","r","e">>,
          <<"g","c","p">>, <<"n","e","t","w","o","r","k"," ","s","y","s","t","e","m","s">>,
          <<"n","e","t","w","o","r","k"," ","a","u","t","o","m","a","t","i","o","n">> } >>,
     << "Software Engineering",
        { <<"s","o","f","t","w","a","r","e">>, <<"d","e","v","e","l","o","p","e","r">>,
          <<"s","w","e">>, <<"f","u","l","l"," ","s","t","a","c","k">>,
          <<"f","u","l","l","s","t","a","c","k">>, <<"f","r","o","n","t","e","n","d">>,
          <<"b","a","c","k","e","n","d">>, <<"w","e","b">>, <<"m","o","b","i","l","e">>,
          <<"i","o","s">>, <<"a","n","d","r","o","i","d">>, <<"e","n","g","i","n","e","e","r">>,
          <<"e","n","g","i","n","e","e","r","i","n","g">>,
          <<"p","r","o","g","r","a","m","m","e","r">>, <<"c","o","d","e","r">>,
          <<"t","e","c","h","n","o","l","o","g","y">>, <<"d","i","g","i","t","a","l">>,
          <<"a","u","t","o","m","a","t","i","o","n">>, <<"g","i","s">>,
          <<"g","a","m","i","n","g">>,
          <<"v","i","d","e","o"," ","a","l","g","o","r","i","t","h","m">>,
          <<"i","m","p","l","e","m","e","n","t","a","t","i","o","n">>,
          <<"p","r","o","d","u","c","t"," ","d","e","v","e","l","o","p","m","e","n","t">>,
          <<"p","r","o","d","u","c","t"," ","m","a","n","a","g","e","r">>,
          <<"s","i","m","u","l","a","t","i","o","n">>, <<"r","o","b","o","t","i","c","s">>,
          <<"r","p","a">>, <<"i","t"," ">>, <<"s","y","s","t","e","m","s">>,
          <<"w","i","r","e","l","e","s","s">>, <<"m","e","s"," ">>,
          <<"m","a","n","u","f","a","c","t","u","r","i","n","g"," ","e","x","e","c","u","t","i","o","n">>,
          <<"i","n","d","u","s","t","r","y"," ","4",".","0">>,
          <<"d","i","g","i","t","a","l","i","z","a","t","i","o","n">>,
          <<"d","i","m","e","n","s","i","o","n","a","l">>,
          <<"i","n","n","o","v","a","t","i","o","n">>,
          <<"p","r","e","d","i","c","t","i","v","e">>,
          <<"l","a","n","g","u","a","g","e"," ","m","o","d","e","l","s">>,
          <<"a","l","g","o","r","i","t","h","m","s">>, <<"6","g">>,
          <<"d","i","g","i","t","a","l"," ","t","w","i","n">>,
          <<"p","l","a","t","f","o","r","m">>, <<"a","d","t","e","c","h">>, <<"d","3","6","5">>,
          <<"c","o","n","s","u","l","t","i","n","g">>, <<"e","u","v">>, <<"a","g","i","l","e">>,
          <<"p","r","o","d","u","c","t"," ","a","s","s","o","c","i","a","t","e">>,
          <<"c","o","m","m","e","r","c","e">> } >> >>

\* a loop over the rules that does not return at its first match
RECURSIVE LastCategory(_, _)
LastCategory(rules, title_lower) ==
  IF rules = <<>> THEN "Other"
  ELSE IF \E keyword \in rules[Len(rules)][2] : Contains(title_lower, keyword)
       THEN rules[Len(rules)][1]
       ELSE LastCategory(SubSeq(rules, 1, Len(rules) - 1), title_lower)

\* categorize_job_title: the first rule with a keyword in the lower-cased title
RECURSIVE FirstCategory(_, _)
FirstCategory(rules, title_lower) ==
  IF rules = <<>> THEN "Other"
  ELSE IF \E keyword \in Head(rules)[2] : Contains(title_lower, keyword)
       THEN Head(rules)[1]
       ELSE FirstCategory(Tail(rules), title_lower)

\* lines 107..117
Category(title) ==
  IF ~Truthy(title) THEN "Other" ELSE FirstCategory(JOB_CATEGORIES, Lower(title))

\* categorize_job_title on the titles of the model, computed once
CategoryOn == [title \in CatTitles |-> Category(title)]

categorize_job_title(title) ==
  IF title \in CatTitles THEN CategoryOn[title] ELSE Category(title)

\* SKILL_ALIASES: the pairs of key and canonical name
SKILL_ALIASES ==
  { << <<"j","a","v","a","s","c","r","i","p","t">>, <<"J","a","v","a","S","c","r","i","p","t">> >>,
    << <<"t","y","p","e","s","c","r","i","p","t">>, <<"T","y","p","e","S","c","r","i","p","t">> >>,
    << <<"p","y","t","h","o","n">>, <<"P","y","t","h","o","n">> >>,
    << <<"j","a","v","a">>, <<"J","a","v","a">> >>, << <<"c","#">>, <<"C","#">> >>,
    << <<"c">>, <<"C","/","C","+","+">> >>, << <<"c","+","+">>, <<"C","/","C","+","+">> >>,
    << <<"g","o","l","a","n","g">>, <<"G","o">> >>, << <<"g","o">>, <<"G","o">> >>,
    << <<"r">>, <<"R">> >>, << <<"n","o","d","e","j","s">>, <<"N","o","d","e",".","j","s">> >>,
    << <<"n","o","d","e",".","j","s">>, <<"N","o","d","e",".","j","s">> >>,
    << <<"n","o","d","e">>, <<"N","o","d","e",".","j","s">> >>,
    << <<"r","e","a","c","t",".","j","s">>, <<"R","e","a","c","t">> >>,
    << <<"r","e","a","c","t","j","s">>, <<"R","e","a","c","t">> >>,
    << <<"v","u","e",".","j","s">>, <<"V","u","e">> >>,
    << <<"v","u","e","j","s">>, <<"V","u","e">> >>,
    << <<"a","n","g","u","l","a","r",".","j","s">>, <<"A","n","g","u","l","a","r">> >>,
    << <<"a","n","g","u","l","a","r","j","s">>, <<"A","n","g","u","l","a","r">> >>,
    << <<"p","y","t","o","r","c","h">>, <<"P","y","T","o","r","c","h">> >>,
    << <<"t","e","n","s","o","r","f","l","o","w">>, <<"T","e","n","s","o","r","F","l","o","w">> >>,
    << <<"s","c","i","k","i","t","-","l","e","a","r","n">>, <<"s","c","i","k","i","t","-","l","e","a","r","n">> >>,
    << <<"n","u","m","p","y">>, <<"N","u","m","P","y">> >>,
    << <<"p","a","n","d","a","s">>, <<"p","a","n","d","a","s">> >>,
    << <<"p","o","s","t","g","r","e","s","q","l">>, <<"P","o","s","t","g","r","e","S","Q","L">> >>,
    << <<"p","o","s","t","g","r","e","s">>, <<"P","o","s","t","g","r","e","S","Q","L">> >>,
    << <<"m","o","n","g","o","d","b">>, <<"M","o","n","g","o","D","B">> >>,
    << <<"m","y","s","q","l">>, <<"M","y","S","Q","L">> >>,
    << <<"a","m","a","z","o","n"," ","w","e","b"," ","s","e","r","v","i","c","e","s">>, <<"A","W","S">> >>,
    << <<"a","w","s">>, <<"A","W","S">> >>,
    << <<"g","o","o","g","l","e"," ","c","l","o","u","d"," ","p","l","a","t","f","o","r","m">>, <<"G","C","P">> >>,
    << <<"g","o","o","g","l","e"," ","c","l","o","u","d">>, <<"G","C","P">> >>,
    << <<"g","c","p">>, <<"G","C","P">> >>,
    << <<"m","i","c","r","o","s","o","f","t"," ","a","z","u","r","e">>, <<"A","z","u","r","e">> >>,
    << <<"a","z","u","r","e">>, <<"A","z","u","r","e">> >>,
    << <<"g","i","t">>, <<"G","i","t">> >>,
    << <<"g","i","t","h","u","b">>, <<"G","i","t","H","u","b">> >>,
    << <<"g","i","t","l","a","b">>, <<"G","i","t","L","a","b">> >>,
    << <<"d","o","c","k","e","r">>, <<"D","o","c","k","e","r">> >>,
    << <<"k","u","b","e","r","n","e","t","e","s">>, <<"K","u","b","e","r","n","e","t","e","s">> >>,
    << <<"k","8","s">>, <<"K","u","b","e","r","n","e","t","e","s">> >>,
    << <<"j","i","r","a">>, <<"J","i","r","a">> >>,
    << <<"c","i","/","c","d">>, <<"C","I","/","C","D">> >>,
    << <<"c","o","n","t","i","n","u","o","u","s"," ","i","n","t","e","g","r","a","t","i","o","n">>, <<"C","I","/","C","D">> >>,
    << <<"l","i","n","u","x">>, <<"L","i","n","u","x">> >>,
    << <<"u","n","i","x">>, <<"U","n","i","x">> >>,
    << <<"b","a","s","h">>, <<"B","a","s","h">> >>,
    << <<"p","o","w","e","r","s","h","e","l","l">>, <<"P","o","w","e","r","S","h","e","l","l">> >>,
    << <<"s","c","r","u","m">>, <<"S","c","r","u","m">> >>,
    << <<"a","g","i","l","e">>, <<"A","g","i","l","e">> >>,
    << <<"m","a","t","l","a","b">>, <<"M","A","T","L","A","B">> >> }

AliasKeys == {pair[1] : pair \in SKILL_ALIASES}
AliasOf(key) == (CHOOSE pair \in SKILL_ALIASES : pair[1] = key)[2]

\* the two term lists of normalize_skill, lines 141..151
skip_terms ==
  { <<"p","r","o","b","l","e","m"," ","s","o","l","v","i","n","g">>,
    <<"c","o","m","m","u","n","i","c","a","t","i","o","n">>,
    <<"t","e","a","m","w","o","r","k">>, <<"f","a","s","t","-","p","a","c","e","d">>,
    <<"s","e","l","f","-","s","t","a","r","t","e","r">>,
    <<"d","e","t","a","i","l","-","o","r","i","e","n","t","e","d">>,
    <<"p","a","s","s","i","o","n","a","t","e">>, <<"m","o","t","i","v","a","t","e","d">>,
    <<"e","x","c","e","l","l","e","n","t">>, <<"s","t","r","o","n","g">>,
    <<"g","o","o","d">>, <<"a","b","i","l","i","t","y"," ","t","o">>,
    <<"e","x","p","e","r","i","e","n","c","e"," ","w","i","t","h">> }

keep_as_single ==
  { <<"d","a","t","a"," ","s","t","r","u","c","t","u","r","e","s">>,
    <<"a","l","g","o","r","i","t","h","m","s">>,
    <<"d","a","t","a"," ","s","t","r","u","c","t","u","r","e","s"," ","&"," ","a","l","g","o","r","i","t","h","m","s">>,
    <<"d","a","t","a"," ","s","t","r","u","c","t","u","r","e","s"," ","a","n","d"," ","a","l","g","o","r","i","t","h","m","s">>,
    <<"o","b","j","e","c","t"," ","o","r","i","e","n","t","e","d">>,
    <<"m","a","c","h","i","n","e"," ","l","e","a","r","n","i","n","g">>,
    <<"d","e","e","p"," ","l","e","a","r","n","i","n","g">>,
    <<"c","o","m","p","u","t","e","r"," ","v","i","s","i","o","n">>,
    <<"n","a","t","u","r","a","l"," ","l","a","n","g","u","a","g","e"," ","p","r","o","c","e","s","s","i","n","g">>,
    <<"d","i","s","t","r","i","b","u","t","e","d"," ","s","y","s","t","e","m","s">> }

\* an alias lookup that skips strings of one character
IsAliasLongOnly(skill) == Len(skill) >= 2 /\ Lower(skill) \in AliasKeys

\* line 131: skill.lower() in SKILL_ALIASES
IsAlias(skill) == Lower(skill) \in AliasKeys

\* a split that keeps every fragment
KeepsEveryPart(part) == TRUE

\* line 160: len(part) >= 2
KeepsPart(part) == Len(part) >= 2

\* a split that does not look its fragments up
NormalizedPartAsIs(part) == part

\* line 161: SKILL_ALIASES.get(part.lower(), part)
NormalizedPart(part) == IF Lower(part) \in AliasKeys THEN AliasOf(Lower(part)) ELSE part

\* lines 156..163
SplitSkill(skill) ==
  LET raw == Split(skill, "/")
      parts == [k \in 1..Len(raw) |-> Strip(raw[k])]
      kept == SelectSeq(parts, KeepsPart)
      result == [k \in 1..Len(kept) |-> NormalizedPart(kept[k])]
  IN  IF result # <<>> THEN result ELSE <<skill>>

\* lines 124..166
Normalized(skill_name) ==
  LET skill == Strip(skill_name) IN
  IF skill = <<>> THEN <<>>
  ELSE IF IsAlias(skill) THEN <<AliasOf(Lower(skill))>>
  ELSE IF Len(skill) < 2 THEN <<>>
  ELSE IF \E term \in skip_terms : Contains(Lower(skill), term) THEN <<>>
  ELSE IF \E term \in keep_as_single : Contains(Lower(skill), term) THEN <<skill>>
  ELSE IF Contains(skill, <<"/">>) /\ Len(skill) < 20 THEN SplitSkill(skill)
  ELSE <<skill>>

\* normalize_skill on the skill names of the model, computed once
SkillNamesIn(all_skills) ==
  UNION {{all_skills[n][2][m] : m \in DOMAIN all_skills[n][2]} : n \in DOMAIN all_skills}
ModelSkills == RawSkills \cup SkillNamesIn(SkillsDevOps) \cup SkillNamesIn(SkillsSwe)
NormalizedOn == [skill_name \in ModelSkills |-> Normalized(skill_name)]

normalize_skill(skill_name) ==
  IF skill_name \in ModelSkills THEN NormalizedOn[skill_name] ELSE Normalized(skill_name)

\* the table jobs without rows
NoRows == <<>>

\* the values of the INSERT of save_job_data, lines 260..269
JobRow(job_data) ==
  [ title |-> job_data.job_title, company |-> job_data.company,
    url |-> job_data.url, raw_skills_data |-> job_data,
    category |-> categorize_job_title(job_data.job_title) ]

\* a SELECT that finds no row
JobUrlsNone(tbl) == {}

\* SELECT url FROM jobs
JobUrls(tbl) == {tbl[n].url : n \in DOMAIN tbl}

\* an INSERT without a conflict clause on a table without the UNIQUE constraint
InsertJob(tbl, job_data) == Append(tbl, JobRow(job_data))

\* INSERT ... ON CONFLICT (url) DO NOTHING
UpsertKeepsFirst(tbl, job_data) ==
  IF job_data.url \in JobUrls(tbl) THEN tbl ELSE Append(tbl, JobRow(job_data))

\* INSERT INTO jobs ... ON CONFLICT (url) DO UPDATE SET raw_skills_data, category
UpsertJob(tbl, job_data) ==
  IF job_data.url \in JobUrls(tbl)
  THEN [n \in DOMAIN tbl |->
          IF tbl[n].url = job_data.url
          THEN [tbl[n] EXCEPT !.raw_skills_data = job_data,
                              !.category = categorize_job_title(job_data.job_title)]
          ELSE tbl[n]]
  ELSE Append(tbl, JobRow(job_data))

\* the three tables save_job_data writes
Store(j, s, l) == [jobs |-> j, skills |-> s, job_skills |-> l]

\* RETURNING id / SELECT id FROM jobs WHERE url = %s
JobId(tbl, url) == CHOOSE n \in DOMAIN tbl : tbl[n].url = url

\* SELECT id FROM skills WHERE name = %s
SkillId(tbl, name) == CHOOSE n \in DOMAIN tbl : tbl[n].name = name
SkillNames(tbl) == {tbl[n].name : n \in DOMAIN tbl}

\* INSERT INTO skills ... ON CONFLICT (name) DO NOTHING
InsertSkill(tbl, name, category) ==
  IF name \in SkillNames(tbl) THEN tbl ELSE Append(tbl, [name |-> name, category |-> category])

\* an INSERT into job_skills without the primary key
LinkAlways(tbl, job_id, skill_id) == Append(tbl, <<job_id, skill_id>>)

\* INSERT INTO job_skills ... ON CONFLICT DO NOTHING
Link(tbl, job_id, skill_id) ==
  IF \E n \in DOMAIN tbl : tbl[n] = <<job_id, skill_id>>
  THEN tbl ELSE Append(tbl, <<job_id, skill_id>>)

\* lines 291..309, the three nested loops flattened: the pairs
\* <<category, clean_name>> in the order the statements run
RECURSIVE CleanNames(_, _)
CleanNames(category, skill_list) ==
  IF skill_list = <<>> THEN <<>>
  ELSE LET normalized_skills == normalize_skill(Head(skill_list))
       IN  [n \in 1..Len(normalized_skills) |-> <<category, normalized_skills[n]>>]
           \o CleanNames(category, Tail(skill_list))

RECURSIVE CleanSkills(_)
CleanSkills(all_skills) ==
  IF all_skills = <<>> THEN <<>>
  ELSE CleanNames(Head(all_skills)[1], Head(all_skills)[2]) \o CleanSkills(Tail(all_skills))

\* the statements of one clean_name, lines 296..309
RECURSIVE SaveSkills(_, _, _)
SaveSkills(st, job_id, pairs) ==
  IF pairs = <<>> THEN st
  ELSE LET category == Head(pairs)[1]
           clean_name == Head(pairs)[2]
           skills1 == InsertSkill(st.skills, clean_name, category)
           skill_id == SkillId(skills1, clean_name)
       IN  SaveSkills(Store(st.jobs, skills1, Link(st.job_skills, job_id, skill_id)),
                      job_id, Tail(pairs))

\* lines 252..311: the statements of the transaction, up to the commit
Transaction(st, job_data) ==
  LET jobs1 == UpsertJob(st.jobs, job_data)
  IN  SaveSkills(Store(jobs1, st.skills, st.job_skills), JobId(jobs1, job_data.url),
                 CleanSkills(job_data.skills))

\* an error handler without the rollback: what was written stays
RollbackKeepsWrites(before, written) == written

\* conn.rollback(), line 315
Rollback(before, written) == before

\* save_job_data: the tables after the call. A non-tech title returns before
\* connecting; an error inside the transaction (here: at its last statement)
\* is rolled back; a failed connect writes nothing.
save_job_data(st, job_data, outcome) ==
  IF ~is_tech_related_job(job_data.job_title) THEN st
  ELSE IF outcome = "ok" THEN Transaction(st, job_data)
  ELSE IF outcome = "write_fails" THEN Rollback(st, Transaction(st, job_data))
  ELSE st

\* save_job_data raises only when get_db_connection does
save_job_data_raises(job_data, outcome) ==
  is_tech_related_job(job_data.job_title) /\ outcome = "connect_fails"

\* the step an error of save_job_data belongs to, if there is one
save_job_data_fault(job_data, outcome) ==
  IF is_tech_related_job(job_data.job_title) /\ outcome # "ok" THEN "persist" ELSE "none"

\* SELECT url FROM failed_urls
FailedUrls(tbl) == {tbl[n].url : n \in DOMAIN tbl}

\* a new row of failed_urls: attempts, created_at and last_attempt by DEFAULT
FailedRow(url, error, ts) ==
  [url |-> url, error |-> error, attempts |-> 1, created_at |-> ts, last_attempt |-> ts]

\* ON CONFLICT (url) DO UPDATE SET attempts = failed_urls.attempts + 1 alone
UpsertFailedCountsOnly(tbl, url, error, ts) ==
  IF url \in FailedUrls(tbl)
  THEN [n \in DOMAIN tbl |->
          IF tbl[n].url = url THEN [tbl[n] EXCEPT !.attempts = @ + 1] ELSE tbl[n]]
  ELSE Append(tbl, FailedRow(url, error, ts))

\* INSERT INTO failed_urls (url, error) ... ON CONFLICT (url) DO UPDATE
\* SET attempts + 1, error, last_attempt
save_failed_url(tbl, url, error, ts) ==
  IF url \in FailedUrls(tbl)
  THEN [n \in DOMAIN tbl |->
          IF tbl[n].url = url
          THEN [tbl[n] EXCEPT !.attempts = @ + 1, !.error = error, !.last_attempt = ts]
          ELSE tbl[n]]
  ELSE Append(tbl, FailedRow(url, error, ts))

\* DELETE FROM failed_urls
clear_failed_urls(tbl) == NoRows

(***************************************************************************)
(* batch_processor.py: BatchProcessor                                      *)
(***************************************************************************)
\* a slice that stops one candidate early
BatchSliceOffByOne(js, off, bs) == SubSeq(js, off + 1, Min(off + bs - 1, Len(js)))

\* jobs[i:i + batch_size]
BatchSlice(js, off, bs) == SubSeq(js, off + 1, Min(off + bs, Len(js)))

\* tasks of the current batch, by their position in jobs
BatchTasks == (i + 1)..(i + Len(batch))
JobOf(k) == batch[k - i]

\* a gate that forgets to look at its counter
SemLockedIgnoresValue == waiters # <<>>

\* asyncio.Semaphore.locked()
SemLocked == sem_value = 0 \/ waiters # <<>>

\* a release that wakes nobody
ReleasedTaskWakesNobody(tk) == tk

\* Semaphore.release(): the freed slot goes to the first waiter, if any
ReleasedTask(tk) ==
  IF waiters = <<>> THEN tk ELSE [tk EXCEPT ![Head(waiters)] = "Fetching"]
\* an exit path that keeps its slot
ReleasedValueKept == sem_value
ReleasedValue == IF waiters = <<>> THEN sem_value + 1 ELSE sem_value
ReleasedWaiters == IF waiters = <<>> THEN waiters ELSE Tail(waiters)

\* the task of candidate k returns result r and leaves `async with`
Finish(k, r, f) ==
  /\ fault' = [fault EXCEPT ![k] = f]
  /\ task' = ReleasedTask([task EXCEPT ![k] = IF r.success THEN "SUCCESS" ELSE "FAILED"])
  /\ sem_value' = ReleasedValue
  /\ waiters' = ReleasedWaiters
  /\ task_result' = [task_result EXCEPT ![k] = r]
  /\ done_order' = Append(done_order, k)
  /\ cur' = 0
  /\ html_content' = NoContent
  /\ parsed' = NoData

\* an enrichment that takes title and company from the candidate in every case
EnrichedFromCandidate(p, job) ==
  [ kind |-> "dict", job_title |-> job.role, company |-> job.company,
    skills |-> p.skills, url |-> job.apply_url, location |-> job.location ]

\* step 3 of process_single_job: backfill title and company, add url and location
Enriched(p, job) ==
  [ kind |-> "dict",
    job_title |-> IF ~Truthy(p.job_title) \/ p.job_title = NullSentinel
                  THEN job.role ELSE p.job_title,
    company |-> IF ~Truthy(p.company) \/ p.company = NullSentinel
                THEN job.company ELSE p.company,
    skills |-> p.skills,
    url |-> job.apply_url,
    location |-> job.location ]

\* process_all, line 163: the loop takes its next offset and submits the batch.
\* process_batch creates one task per candidate and awaits gather.
SubmitBatch ==
  /\ pc = "loop"
  /\ i < Len(jobs)
  /\ LET b == BatchSlice(jobs, i, batch_size) IN
       /\ batch' = b
       /\ batch_log' = Append(batch_log, b)
       /\ task' = [k \in DOMAIN task |->
                     IF k \in (i + 1)..(i + Len(b)) THEN "Queued" ELSE task[k]]
  /\ pc' = "gather"
  /\ UNCHANGED << jobs, batch_size, max_concurrent, delay_between_batches, i,
                  task_result, sem_value, waiters, cur, html_content, parsed,
                  done_order, fault, processed_results, stat_k, processed,
                  succeeded, failed, all_results, db_vars, env_vars >>

\* the event loop runs the tasks in the order gather created them
NextToStart(k) ==
  /\ k \in BatchTasks
  /\ task[k] = "Queued"
  /\ \A m \in BatchTasks : m < k => task[m] # "Queued"

\* `async with self.semaphore` finds a free slot; the task calls scrape_page
Admit(k) ==
  /\ pc = "gather" /\ cur = 0
  /\ NextToStart(k)
  /\ ~SemLocked
  /\ sem_value' = sem_value - 1
  /\ task' = [task EXCEPT ![k] = "Fetching"]
  /\ UNCHANGED << jobs, batch_size, max_concurrent, delay_between_batches, pc, i,
                  batch, task_result, waiters, cur, html_content, parsed,
                  done_order, fault, processed_results, stat_k, processed, succeeded,
                  failed, all_results, batch_log, db_vars, env_vars >>

\* `async with self.semaphore` finds no free slot; the task waits at the gate
Block(k) ==
  /\ pc = "gather" /\ cur = 0
  /\ NextToStart(k)
  /\ SemLocked
  /\ waiters' = Append(waiters, k)
  /\ task' = [task EXCEPT ![k] = "Waiting"]
  /\ UNCHANGED << jobs, batch_size, max_concurrent, delay_between_batches, pc, i,
                  batch, task_result, sem_value, cur, html_content, parsed,
                  done_order, fault, processed_results, stat_k, processed, succeeded,
                  failed, all_results, batch_log, db_vars, env_vars >>

\* scrape_page raises: except Exception, line 93
ScrapeRaises(k) ==
  /\ pc = "gather" /\ cur = 0
  /\ k \in BatchTasks /\ task[k] = "Fetching"
  /\ Finish(k, ProcessResult(JobOf(k), FALSE, ErrScrape, NoData), "fetch")
  /\ UNCHANGED << jobs, batch_size, max_concurrent, delay_between_batches, pc, i,
                  batch, processed_results, stat_k, processed, succeeded, failed,
                  all_results, batch_log, db_vars, env_vars >>

\* scrape_page returns c; lines 57..62
ScrapeReturns(k, c) ==
  /\ pc = "gather" /\ cur = 0
  /\ k \in BatchTasks /\ task[k] = "Fetching"
  /\ IF ~ContentTruthy(c) \/ ContentLen(c) < MinContentLen
     THEN Finish(k, ProcessResult(JobOf(k), FALSE, ErrTooShort(c), NoData), "none")
     ELSE /\ task' = [task EXCEPT ![k] = "Extracting"]
          /\ cur' = k
          /\ html_content' = c
          /\ UNCHANGED << task_result, sem_value, waiters, parsed, done_order, fault >>
  /\ UNCHANGED << jobs, batch_size, max_concurrent, delay_between_batches, pc, i,
                  batch, processed_results, stat_k, processed, succeeded, failed,
                  all_results, batch_log, db_vars, env_vars >>

\* parse_job_text(html_content) returns p; lines 65..72
Extract(k, p) ==
  /\ pc = "gather" /\ cur = k
  /\ task[k] = "Extracting"
  /\ IF ~ParsedTruthy(p)
     THEN Finish(k, ProcessResult(JobOf(k), FALSE, ErrParsing, NoData), "extract")
     ELSE /\ task' = [task EXCEPT ![k] = "Enriching"]
          /\ parsed' = p
          /\ UNCHANGED << task_result, sem_value, waiters, cur, html_content,
                          done_order, fault >>
  /\ UNCHANGED << jobs, batch_size, max_concurrent, delay_between_batches, pc, i,
                  batch, processed_results, stat_k, processed, succeeded, failed,
                  all_results, batch_log, db_vars, env_vars >>

\* lines 75..82; parsed.get raises AttributeError when the answer is no object
Enrich(k) ==
  /\ pc = "gather" /\ cur = k
  /\ task[k] = "Enriching"
  /\ IF parsed.kind # "dict"
     THEN Finish(k, ProcessResult(JobOf(k), FALSE, ErrAttribute, NoData), "enrich")
     ELSE /\ task' = [task EXCEPT ![k] = "Persisting"]
          /\ parsed' = Enriched(parsed, JobOf(k))
          /\ UNCHANGED << task_result, sem_value, waiters, cur, html_content,
                          done_order, fault >>
  /\ UNCHANGED << jobs, batch_size, max_concurrent, delay_between_batches, pc, i,
                  batch, processed_results, stat_k, processed, succeeded, failed,
                  all_results, batch_log, db_vars, env_vars >>

\* save_job_data(parsed) and the return of lines 87..91
Persist(k, outcome) ==
  /\ pc = "gather" /\ cur = k
  /\ task[k] = "Persisting"
  /\ IF save_job_data_raises(parsed, outcome)
     THEN /\ Finish(k, ProcessResult(JobOf(k), FALSE, ErrConnect, NoData), "persist")
          /\ UNCHANGED << db_jobs, db_skills, db_job_skills >>
     ELSE /\ LET st == save_job_data(Store(db_jobs, db_skills, db_job_skills), parsed, outcome)
             IN  /\ db_jobs' = st.jobs
                 /\ db_skills' = st.skills
                 /\ db_job_skills' = st.job_skills
          /\ Finish(k, ProcessResult(JobOf(k), TRUE, NoError, parsed),
                    save_job_data_fault(parsed, outcome))
  /\ UNCHANGED << jobs, batch_size, max_concurrent, delay_between_batches, pc, i,
                  batch, processed_results, stat_k, processed, succeeded, failed,
                  all_results, batch_log, db_failed, env_vars >>

\* a wait that returns with the first task that completes
GatherFirstCompleted == \E k \in BatchTasks : task[k] \in Terminal

\* asyncio.gather(*tasks, return_exceptions=True): done when every task is
GatherDone == \A k \in BatchTasks : task[k] \in Terminal

\* results collected in completion order (asyncio.as_completed)
GatherAsCompleted == [k \in 1..Len(batch) |-> task_result[done_order[k]]]

\* gather's result list: the tasks' outcomes in the order of `tasks`
Gather == [k \in 1..Len(batch) |-> task_result[i + k]]

\* lines 120..129: an exception among gather's results becomes a failed result
IsException(r) == "exception" \in DOMAIN r
ProcessedResults(results, b) ==
  [k \in 1..Len(results) |->
     IF IsException(results[k])
     THEN ProcessResult(b[k], FALSE, results[k].exception, NoData)
     ELSE results[k]]

GatherReturns ==
  /\ pc = "gather" /\ cur = 0
  /\ GatherDone
  /\ processed_results' = ProcessedResults(Gather, batch)
  /\ stat_k' = 0
  /\ pc' = "stats"
  /\ UNCHANGED << jobs, batch_size, max_concurrent, delay_between_batches, i, batch,
                  task, task_result, sem_value, waiters, cur, html_content, parsed,
                  done_order, fault, processed, succeeded, failed, all_results, batch_log, db_vars, env_vars >>

\* lines 132..137, one iteration of the stats loop
CountSucceeded(r, n) == IF r.success THEN n + 1 ELSE n
CountFailedNever(r, n) == n
CountFailed(r, n) == IF r.success THEN n ELSE n + 1

StatsStep ==
  /\ pc = "stats"
  /\ stat_k < Len(processed_results)
  /\ LET r == processed_results[stat_k + 1] IN
       /\ processed' = processed + 1
       /\ succeeded' = CountSucceeded(r, succeeded)
       /\ failed' = CountFailed(r, failed)
  /\ stat_k' = stat_k + 1
  /\ UNCHANGED << jobs, batch_size, max_concurrent, delay_between_batches, pc, i,
                  batch, task, task_result, sem_value, waiters, cur, html_content,
                  parsed, done_order, fault, processed_results, all_results,
                  batch_log, db_vars, env_vars >>

\* a loop that waits after the last batch too
WaitsAfterEveryBatch == delay_between_batches > 0

\* line 172: a wait follows unless this was the last batch
WaitsAfterBatch == i + batch_size < Len(jobs) /\ delay_between_batches > 0

\* process_batch returns; lines 169..174
BatchReturns ==
  /\ pc = "stats"
  /\ stat_k = Len(processed_results)
  /\ all_results' = all_results \o processed_results
  /\ IF WaitsAfterBatch
     THEN pc' = "sleep" /\ i' = i
     ELSE pc' = "loop" /\ i' = i + batch_size
  /\ done_order' = <<>>
  /\ UNCHANGED << jobs, batch_size, max_concurrent, delay_between_batches, batch,
                  task, task_result, sem_value, waiters, cur, html_content, parsed,
                  fault, processed_results, stat_k, processed, succeeded,
                  failed, batch_log, db_vars, env_vars >>

\* asyncio.sleep(delay_between_batches) is over
SleepDone ==
  /\ pc = "sleep"
  /\ pc' = "loop"
  /\ i' = i + batch_size
  /\ UNCHANGED << jobs, batch_size, max_concurrent, delay_between_batches, batch,
                  task, task_result, sem_value, waiters, cur, html_content, parsed,
                  done_order, fault, processed_results, stat_k, processed, succeeded,
                  failed, all_results, batch_log, db_vars, env_vars >>

\* Python's a / b
ErrZeroDivision == << "ZeroDivisionError" >>
TrueDiv(a, b) == IF b = 0 THEN ErrZeroDivision ELSE << a, b >>

\* x * 100 formatted with :.1f, kept in tenths of a percent
Percent(x) ==
  IF x = ErrZeroDivision THEN x
  ELSE << "%", (x[1] * 2000 + x[2]) \div (2 * x[2]) >>

\* a summary line that always formats the rate
SuccessRateUnguarded(s, p) == Percent(TrueDiv(s, p))

\* line 183: the rate, or "N/A" when nothing was processed
SuccessRate(s, p) == IF p > 0 THEN Percent(TrueDiv(s, p)) ELSE << "N/A" >>

NoSummary == [ printed |-> FALSE ]

\* the loop is exhausted: summary and return, lines 176..185
ProcessAllReturns ==
  /\ pc = "loop"
  /\ i >= Len(jobs)
  /\ summary' = [ printed |-> TRUE, processed |-> processed, succeeded |-> succeeded,
                  failed |-> failed, rate |-> SuccessRate(succeeded, processed) ]
  /\ pc' = "done"
  /\ UNCHANGED << jobs, batch_size, max_concurrent, delay_between_batches, i, batch,
                  task, task_result, sem_value, waiters, cur, html_content, parsed,
                  done_order, fault, processed_results, stat_k, processed, succeeded,
                  failed, all_results, batch_log, db_vars, sched_vars, pipe_vars,
                  filt_vars, daemon_vars, rerun_vars, ledger_vars, store_vars,
                  main_vars >>

(***************************************************************************)
(* A run of process_all on a fresh BatchProcessor                          *)
(***************************************************************************)
\* delay_between_batches=2.0: the constructor's default and run_batch_pipeline's value
DefaultDelay == 2
EmptyTable == <<>>

InitOrchestrator(js, bs, mc, dl) ==
  /\ jobs = js
  /\ batch_size = bs
  /\ max_concurrent = mc
  /\ delay_between_batches = dl
  /\ summary = NoSummary
  /\ pc = "loop"
  /\ i = 0
  /\ batch = <<>>
  /\ task = [k \in 1..Len(js) |-> "NotSubmitted"]
  /\ task_result = [k \in 1..Len(js) |-> NoResult]
  /\ sem_value = mc
  /\ waiters = <<>>
  /\ cur = 0
  /\ html_content = NoContent
  /\ parsed = NoData
  /\ done_order = <<>>
  /\ fault = [k \in 1..Len(js) |-> "none"]
  /\ processed_results = <<>>
  /\ stat_k = 0
  /\ processed = 0 /\ succeeded = 0 /\ failed = 0
  /\ all_results = <<>>
  /\ batch_log = <<>>

\* no BatchProcessor has been constructed yet
NoOrchestrator ==
  /\ jobs = <<>> /\ batch_size = 1 /\ max_concurrent = 1
  /\ delay_between_batches = DefaultDelay
  /\ summary = NoSummary
  /\ pc = "idle" /\ i = 0 /\ batch = <<>>
  /\ task = <<>> /\ task_result = <<>> /\ fault = <<>>
  /\ sem_value = 1 /\ waiters = <<>> /\ cur = 0
  /\ html_content = NoContent /\ parsed = NoData
  /\ done_order = <<>> /\ processed_results = <<>> /\ stat_k = 0
  /\ processed = 0 /\ succeeded = 0 /\ failed = 0
  /\ all_results = <<>> /\ batch_log = <<>>

\* run_batch_pipeline's signature, lines 188..193
NoLimit == 0
NoArgs == [limit |-> NoLimit, batch_size |-> 1, max_concurrent |-> 1, skip_existing |-> TRUE]

\* run_daemon has not been called; _running = False, line 46
NoDaemon ==
  /\ d_pc = "idle" /\ running = FALSE
  /\ interval_seconds = 0 /\ sleep_seconds = 0 /\ run_count = 0 /\ slept = 0
  /\ signal_at = "none" /\ late_sleep = 0

\* the pipeline has not been started a second time
NoCount == -1
NoOracle == <<>>
NoRerun == oracle = NoOracle /\ first_count = NoCount

\* no call of save_failed_url or clear_failed_urls has been made
NoCall == [op |-> "none", url |-> NoStr, error |-> NoError]
NoLedger == now = 0 /\ rf_call = NoCall /\ rf_count = [u \in {} |-> 0]

\* neither save_job_data nor categorize_job_title has been called directly
NoStoreCall ==
  /\ calls = 0 /\ c_title = NoStr /\ c_category = "none"
  /\ n_skill_name = NoStr /\ n_normalized_skills = <<>>

\* scheduler.py's main has not been started
NoFlags == [ clear_failed |-> FALSE, show_failed |-> FALSE, stats |-> FALSE,
             daemon |-> FALSE, retry_failed |-> FALSE ]
NoOutput == <<>>
NoMain == m_pc = "none" /\ args = NoFlags /\ printed = NoOutput

\* scheduler, pipeline and filter are not running
InitEnvironment(rd) ==
  /\ NoDaemon /\ NoRerun /\ NoLedger /\ NoStoreCall /\ NoMain
  /\ s_pc = "idle" /\ skip_failed = TRUE /\ stats = NoStats
  /\ p_pc = "idle" /\ p_caller = "none" /\ readme = rd
  /\ p_args = NoArgs /\ p_results = <<>>
  /\ listing_fetches = 0 /\ filter_calls = 0 /\ orchestrations = 0
  /\ f_pc = "idle" /\ f_jobs = <<>> /\ f_skip_failed = TRUE /\ new_jobs = <<>>
  /\ skipped_processed = 0 /\ skipped_failed = 0

Init ==
  /\ \E n \in 0..MaxJobs, bs \in 1..MaxBatchSize, mc \in 1..MaxConcurrent :
       InitOrchestrator(SubSeq(Listing, 1, n), bs, mc, DefaultDelay)
  /\ db_jobs = NoRows
  /\ db_failed = EmptyTable
  /\ db_skills = NoRows /\ db_job_skills = NoRows
  /\ InitEnvironment(<<>>)

Next ==
  \/ SubmitBatch
  \/ \E k \in DOMAIN task : Admit(k)
  \/ \E k \in DOMAIN task : Block(k)
  \/ \E k \in DOMAIN task : ScrapeRaises(k)
  \/ \E k \in DOMAIN task, c \in FetchContents : ScrapeReturns(k, c)
  \/ \E k \in DOMAIN task, p \in ParseOutcomes : Extract(k, p)
  \/ \E k \in DOMAIN task : Enrich(k)
  \/ \E k \in DOMAIN task, o \in PersistOutcomes : Persist(k, o)
  \/ GatherReturns
  \/ StatsStep
  \/ BatchReturns
  \/ SleepDone
  \/ ProcessAllReturns

Spec == Init /\ [][Next]_vars

\* the steps the event loop takes on its own: it runs a task that is ready,
\* and a timer of asyncio.sleep expires
LoopStep ==
  \/ SubmitBatch
  \/ \E k \in DOMAIN task : Admit(k)
  \/ \E k \in DOMAIN task : Block(k)
  \/ GatherReturns
  \/ StatsStep
  \/ BatchReturns
  \/ SleepDone
  \/ ProcessAllReturns

\* a call of scrape_page or parse_job_text returns or raises, and the
\* enrichment that follows the extraction runs
CallReturns ==
  \/ \E k \in DOMAIN task : ScrapeRaises(k)
  \/ \E k \in DOMAIN task, c \in FetchContents : ScrapeReturns(k, c)
  \/ \E k \in DOMAIN task, p \in ParseOutcomes : Extract(k, p)
  \/ \E k \in DOMAIN task : Enrich(k)

\* a candidate is inside save_job_data: exactly the states that enable Persist
PersistPending == pc = "gather" /\ cur # 0 /\ task[cur] = "Persisting"

\* the event loop keeps running what is ready, the external calls return or
\* raise, and no call of save_job_data stays pending for ever (weak fairness
\* of Persist, which alone ends PersistPending)
Fairness == WF_vars(LoopStep) /\ WF_vars(CallReturns) /\ []<>~PersistPending

\* the runs whose every behaviour is followed to its end
MaxLiveJobs == 2

InitLive ==
  /\ \E n \in 0..MaxLiveJobs, bs \in 1..MaxBatchSize, mc \in 1..MaxConcurrent :
       InitOrchestrator(SubSeq(Listing, 1, n), bs, mc, DefaultDelay)
  /\ db_jobs = NoRows
  /\ db_failed = EmptyTable
  /\ db_skills = NoRows /\ db_job_skills = NoRows
  /\ InitEnvironment(<<>>)

SpecLive == InitLive /\ [][Next]_vars /\ Fairness

(***************************************************************************)
(* A run of process_all on a BatchProcessor built with a delay of its own  *)
(***************************************************************************)
\* BatchProcessor(delay_between_batches=...), lines 37..39: no wait, the default
DelayValues == {0, DefaultDelay}

InitDelay ==
  /\ \E n \in 0..MaxJobs, bs \in 1..MaxBatchSize, dl \in DelayValues :
       InitOrchestrator(SubSeq(Listing, 1, n), bs, 1, dl)
  /\ db_jobs = NoRows
  /\ db_failed = EmptyTable
  /\ db_skills = NoRows /\ db_job_skills = NoRows
  /\ InitEnvironment(<<>>)

SpecDelay == InitDelay /\ [][Next]_vars

(***************************************************************************)
(* A run of process_all on a list that names one url twice                 *)
(***************************************************************************)
\* two postings of the listing with the same apply link, and a third
DupListing == << JobPosting(CoAcme, TitleSwe, UrlAq),
                 JobPosting(CoBirch, TitleSwe, UrlAq),
                 JobPosting(CoAcme, TitleSwe, UrlB) >>

InitDup ==
  /\ \E n \in 2..Min(MaxJobs, Len(DupListing)), bs \in 1..MaxBatchSize,
        mc \in 1..MaxConcurrent :
       InitOrchestrator(SubSeq(DupListing, 1, n), bs, mc, DefaultDelay)
  /\ db_jobs = NoRows
  /\ db_failed = EmptyTable
  /\ db_skills = NoRows /\ db_job_skills = NoRows
  /\ InitEnvironment(<<>>)

SpecDup == InitDup /\ [][Next]_vars

(***************************************************************************)
(* A run of process_all whose extractions differ in title and company      *)
(***************************************************************************)
\* what the answer's "job_title" and "company" can be: missing or null (None),
\* the empty string, the string "null", or a name
ExtractedTitles == {NoStr, <<>>, NullSentinel, TitleDevOps}
ExtractedCompanies == {NoStr, <<>>, NullSentinel, CoInitech}
EnrichOutcomes ==
  {ParsedDict(t, c, NoSkills) : t \in ExtractedTitles, c \in ExtractedCompanies}

\* one batch with a slot for each of its candidates; every page is fetched and
\* every save commits
InitEnrich ==
  /\ \E n \in 1..MaxBatchSize :
       InitOrchestrator(SubSeq(Listing, 1, n), MaxBatchSize, MaxBatchSize, DefaultDelay)
  /\ db_jobs = NoRows
  /\ db_failed = EmptyTable
  /\ db_skills = NoRows /\ db_job_skills = NoRows
  /\ InitEnvironment(<<>>)

NextEnrich ==
  \/ SubmitBatch
  \/ \E k \in DOMAIN task : Admit(k)
  \/ \E k \in DOMAIN task : ScrapeReturns(k, MinContentLen)
  \/ \E k \in DOMAIN task, p \in EnrichOutcomes : Extract(k, p)
  \/ \E k \in DOMAIN task : Enrich(k)
  \/ \E k \in DOMAIN task : Persist(k, "ok")
  \/ GatherReturns
  \/ StatsStep
  \/ BatchReturns
  \/ ProcessAllReturns

SpecEnrich == InitEnrich /\ [][NextEnrich]_vars

(***************************************************************************)
(* job_tracker.py: filter_new_jobs                                         *)
(***************************************************************************)
\* get_processed_urls / get_failed_urls: the urls of the two tables
get_processed_urls == JobUrls(db_jobs)
get_failed_urls == FailedUrls(db_failed)

\* lines 40..47: failed urls are skipped only when skip_failed is set
SkipUrls(processed_urls, failed_urls, sf) ==
  processed_urls \cup (IF sf THEN failed_urls ELSE {})

\* a check that looks only at the url as given
IsNewExactOnly(job, skip_urls) == job.apply_url \notin skip_urls

\* line 55: neither the url nor the url without its query is known
IsNew(job, skip_urls) ==
  /\ job.apply_url \notin skip_urls
  /\ SplitQuery(job.apply_url) \notin skip_urls

\* a filter that answers the survivors newest first
NewJobsNewestFirst(js, skip_urls) ==
  LET kept == SelectSeq(js, LAMBDA job : IsNew(job, skip_urls))
  IN  [n \in 1..Len(kept) |-> kept[Len(kept) + 1 - n]]

\* lines 50..56
NewJobs(js, skip_urls) == SelectSeq(js, LAMBDA job : IsNew(job, skip_urls))

\* a count that looks only at the url as given
SkippedProcessedExactOnly(js, processed_urls) ==
  Len(SelectSeq(js, LAMBDA job : job.apply_url \in processed_urls))

\* line 58
SkippedProcessed(js, processed_urls) ==
  Len(SelectSeq(js, LAMBDA job : \/ job.apply_url \in processed_urls
                                 \/ SplitQuery(job.apply_url) \in processed_urls))

\* filter_new_jobs(f_jobs, sf) from start to return
FilterEffect(sf) ==
  /\ f_pc = "call"
  /\ LET kept == NewJobs(f_jobs, SkipUrls(get_processed_urls, get_failed_urls, sf))
         done == SkippedProcessed(f_jobs, get_processed_urls)
     IN  /\ new_jobs' = kept
         /\ skipped_processed' = done
         /\ skipped_failed' = Len(f_jobs) - Len(kept) - done
  /\ f_skip_failed' = sf
  /\ filter_calls' = filter_calls + 1
  /\ f_pc' = "returned"

\* a call of filter_new_jobs on its own
FilterCall(sf) ==
  /\ p_pc = "idle"
  /\ FilterEffect(sf)
  /\ UNCHANGED << orch_vars, db_vars, aux_vars, sched_vars, p_pc, p_caller, p_args,
                  p_results, readme, listing_fetches, orchestrations, f_jobs >>

\* the urls the ledger and the candidates of the filter's runs are drawn from
LedgerUrls == {UrlA, UrlAq, UrlB}
CandidateUrls == {UrlA, UrlAq, UrlAr, UrlB, UrlC}
MaxFilterJobs == 3

RECURSIVE SeqOf(_)
SeqOf(S) ==
  IF S = {} THEN <<>>
  ELSE LET x == CHOOSE y \in S : TRUE IN <<x>> \o SeqOf(S \ {x})

\* rows of earlier runs, one per url
JobsTable(urls) ==
  LET us == SeqOf(urls) IN
  [n \in 1..Len(us) |->
     JobRow([kind |-> "dict", job_title |-> TitleSwe, company |-> CoAcme,
             url |-> us[n], location |-> "Remote"])]
FailedTable(urls) ==
  LET us == SeqOf(urls) IN [n \in 1..Len(us) |-> FailedRow(us[n], ErrScrape, 0)]

RECURSIVE SeqsUpTo(_, _)
SeqsUpTo(S, n) ==
  IF n = 0 THEN {<<>>}
  ELSE LET shorter == SeqsUpTo(S, n - 1)
       IN  shorter \cup {Append(q, x) : q \in shorter, x \in S}

CandidateLists ==
  SeqsUpTo({JobPosting(CoAcme, TitleSwe, u) : u \in CandidateUrls}, MaxFilterJobs)

InitFilter ==
  /\ NoOrchestrator
  /\ NoDaemon /\ NoRerun /\ NoLedger /\ NoStoreCall /\ NoMain
  /\ \E P \in SUBSET LedgerUrls : db_jobs = JobsTable(P)
  /\ \E F \in SUBSET LedgerUrls : db_failed = FailedTable(F)
  /\ db_skills = NoRows /\ db_job_skills = NoRows
  /\ s_pc = "idle" /\ skip_failed = TRUE /\ stats = NoStats
  /\ p_pc = "idle" /\ p_caller = "none" /\ readme = <<>>
  /\ p_args = NoArgs /\ p_results = <<>>
  /\ listing_fetches = 0 /\ filter_calls = 0 /\ orchestrations = 0
  /\ f_pc = "call" /\ f_jobs \in CandidateLists /\ f_skip_failed = TRUE
  /\ new_jobs = <<>> /\ skipped_processed = 0 /\ skipped_failed = 0

NextFilter == \E sf \in BOOLEAN : FilterCall(sf)

SpecFilter == InitFilter /\ [][NextFilter]_vars

(***************************************************************************)
(* scheduler.py: run_scheduled_pipeline, JobScheduler.run_once             *)
(* batch_processor.py: run_batch_pipeline                                  *)
(***************************************************************************)
\* the parameters run_batch_pipeline declares, lines 188..193
PipelineParams == {"limit", "batch_size", "max_concurrent", "skip_existing"}

\* the keyword arguments run_once passes, lines 65..71
RunOnceKeywords == {"limit", "batch_size", "max_concurrent", "skip_existing", "skip_failed"}

\* Python binds a call only if every keyword names a parameter; else TypeError
CallBinds(keywords, params) == keywords \subseteq params

\* the dicts run_once returns, lines 75..81 and 89..93
SuccessStats(results) ==
  [ success |-> TRUE,
    keys |-> {"success", "jobs_processed", "jobs_succeeded", "elapsed_seconds", "timestamp"},
    jobs_processed |-> Len(results),
    jobs_succeeded |-> Len(SelectSeq(results, LAMBDA r : r.success)) ]
FailureStats(e) ==
  [ success |-> FALSE, keys |-> {"success", "error", "timestamp"}, error |-> e ]

ErrTypeError == <<"TypeError">>
ErrListing == <<"HTTPError">>

\* the errors of the model are instances of subclasses of Exception
ExceptionInstances == {ErrTypeError, ErrListing, ErrConnect, ErrScrape, ErrAttribute}

\* an except clause for database errors only
CatchesDbErrorsOnly(e) == e = ErrConnect

\* `except Exception as e`, line 87
Catches(e) == e \in ExceptionInstances

\* JobScheduler's defaults, lines 34..38
SchedulerBatchSize == 10
SchedulerMaxConcurrent == 5

\* run_scheduled_pipeline(daemon=False, retry_failed=retry), lines 163..176
StartScheduled(retry) ==
  /\ s_pc = "idle" /\ p_pc = "idle"
  /\ skip_failed' = ~retry
  /\ s_pc' = "run_once"
  /\ UNCHANGED << orch_vars, db_vars, aux_vars, stats, pipe_vars, filt_vars >>

\* run_once, lines 61..93: the call of run_batch_pipeline and its except clause
RunOnce ==
  /\ s_pc = "run_once"
  /\ IF CallBinds(RunOnceKeywords, PipelineParams)
     THEN /\ p_pc' = "init"
          /\ p_caller' = "run_once"
          /\ p_args' = [limit |-> NoLimit, batch_size |-> SchedulerBatchSize,
                        max_concurrent |-> SchedulerMaxConcurrent,
                        skip_existing |-> TRUE]
          /\ s_pc' = "awaiting"
          /\ stats' = stats
     ELSE /\ IF Catches(ErrTypeError)
             THEN stats' = FailureStats(ErrTypeError) /\ s_pc' = "returned"
             ELSE stats' = stats /\ s_pc' = "raised"
          /\ UNCHANGED << p_pc, p_caller, p_args >>
  /\ UNCHANGED << orch_vars, db_vars, aux_vars, skip_failed, p_results, readme,
                  listing_fetches, filter_calls, orchestrations, filt_vars >>

\* run_batch_pipeline called by any other caller (batch_processor.py, line 244)
StartDirect(limit, bs, mc) ==
  /\ s_pc = "idle" /\ p_pc = "idle"
  /\ p_pc' = "init"
  /\ p_caller' = "main"
  /\ p_args' = [limit |-> limit, batch_size |-> bs, max_concurrent |-> mc,
                skip_existing |-> TRUE]
  /\ UNCHANGED << orch_vars, db_vars, aux_vars, sched_vars, p_results, readme,
                  listing_fetches, filter_calls, orchestrations, filt_vars >>

\* run_batch_pipeline returns results to its caller; run_once builds its stats
ReturnToCaller(results) ==
  /\ p_pc' = "returned"
  /\ p_results' = results
  /\ IF p_caller = "run_once"
     THEN stats' = SuccessStats(results) /\ s_pc' = "returned"
     ELSE UNCHANGED << stats, s_pc >>

\* an exception leaves run_batch_pipeline; run_once turns it into its stats
RaiseToCaller(e) ==
  /\ p_pc' = "raised"
  /\ p_results' = p_results
  /\ IF p_caller = "run_once"
     THEN IF Catches(e)
          THEN stats' = FailureStats(e) /\ s_pc' = "returned"
          ELSE stats' = stats /\ s_pc' = "raised"
     ELSE UNCHANGED << stats, s_pc >>

\* get_job_urls(limit), github_scraper.py lines 110..119
get_job_urls(rd, limit) ==
  IF limit # NoLimit THEN SubSeq(rd, 1, Min(limit, Len(rd))) ELSE rd

\* lines 204..212: init_db, the listing fetch, "No jobs found!"
PipelineListing(fetched) ==
  /\ p_pc = "init"
  /\ listing_fetches' = listing_fetches + 1
  /\ IF ~fetched
     THEN RaiseToCaller(ErrListing) /\ UNCHANGED << f_pc, f_jobs >>
     ELSE LET js == get_job_urls(readme, p_args.limit) IN
          IF js = <<>>
          THEN ReturnToCaller(<<>>) /\ UNCHANGED << f_pc, f_jobs >>
          ELSE /\ p_pc' = "filter"
               /\ f_pc' = "call"
               /\ f_jobs' = js
               /\ UNCHANGED << p_results, stats, s_pc >>
  /\ UNCHANGED << orch_vars, db_vars, aux_vars, skip_failed, p_caller, p_args, readme,
                  filter_calls, orchestrations, f_skip_failed, new_jobs,
                  skipped_processed, skipped_failed >>

\* lines 215..221: filter_new_jobs(jobs), "All jobs have already been processed!"
PipelineFilter ==
  /\ p_pc = "filter"
  /\ FilterEffect(TRUE)
  /\ IF new_jobs' = <<>>
     THEN ReturnToCaller(<<>>)
     ELSE p_pc' = "process" /\ UNCHANGED << p_results, stats, s_pc >>
  /\ UNCHANGED << orch_vars, db_vars, aux_vars, skip_failed, p_caller, p_args, readme,
                  listing_fetches, orchestrations, f_jobs >>

\* lines 224..229: BatchProcessor(...) and the call of process_all
PipelineProcess ==
  /\ p_pc = "process"
  /\ jobs' = new_jobs
  /\ batch_size' = p_args.batch_size
  /\ max_concurrent' = p_args.max_concurrent
  /\ delay_between_batches' = DefaultDelay
  /\ pc' = "loop" /\ i' = 0 /\ batch' = <<>>
  /\ task' = [k \in 1..Len(new_jobs) |-> "NotSubmitted"]
  /\ task_result' = [k \in 1..Len(new_jobs) |-> NoResult]
  /\ fault' = [k \in 1..Len(new_jobs) |-> "none"]
  /\ sem_value' = p_args.max_concurrent
  /\ waiters' = <<>> /\ cur' = 0
  /\ html_content' = NoContent /\ parsed' = NoData
  /\ done_order' = <<>> /\ processed_results' = <<>> /\ stat_k' = 0
  /\ processed' = 0 /\ succeeded' = 0 /\ failed' = 0
  /\ all_results' = <<>> /\ batch_log' = <<>>
  /\ orchestrations' = orchestrations + 1
  /\ p_pc' = "process_all"
  /\ UNCHANGED << db_vars, aux_vars, sched_vars, p_caller, p_args, p_results, readme,
                  listing_fetches, filter_calls, filt_vars >>

\* lines 231..234: process_all has returned
PipelineReturns ==
  /\ p_pc = "process_all"
  /\ pc = "done"
  /\ ReturnToCaller(all_results)
  /\ UNCHANGED << orch_vars, db_vars, aux_vars, skip_failed, p_caller, p_args, readme,
                  listing_fetches, filter_calls, orchestrations, filt_vars >>

MaxListing == 2
LimitValues == {NoLimit, 1}

InitSched ==
  /\ NoOrchestrator
  /\ db_jobs \in {NoRows, JobsTable({UrlB})}
  /\ db_failed \in {EmptyTable, FailedTable({UrlAq})}
  /\ db_skills = NoRows /\ db_job_skills = NoRows
  /\ \E n \in 0..MaxListing : InitEnvironment(SubSeq(Listing, 1, n))

NextSched ==
  \/ \E retry \in BOOLEAN : StartScheduled(retry)
  \/ RunOnce
  \/ \E limit \in LimitValues, bs \in 1..MaxBatchSize, mc \in 1..MaxConcurrent :
       StartDirect(limit, bs, mc)
  \/ \E fetched \in BOOLEAN : PipelineListing(fetched)
  \/ PipelineFilter
  \/ PipelineProcess
  \/ PipelineReturns
  \/ Next

SpecSched == InitSched /\ [][NextSched]_vars

(***************************************************************************)
(* run_batch_pipeline started twice on the same listing                    *)
(***************************************************************************)
\* what scrape_page, parse_job_text and the store do for one url
Behaviour(r, c, p, o) == [raises |-> r, content |-> c, parse |-> p, persist |-> o]
Behaviours ==
  { Behaviour(TRUE, NoContent, ParsedNone, "ok"),
    Behaviour(FALSE, MinContentLen, ParsedNone, "ok"),
    Behaviour(FALSE, MinContentLen, ParsedDict(NoStr, NullSentinel, SkillsSwe), "ok"),
    Behaviour(FALSE, MinContentLen, ParsedDict(TitleDevOps, CoInitech, SkillsDevOps), "ok"),
    Behaviour(FALSE, MinContentLen, ParsedDict(NoStr, NullSentinel, SkillsSwe), "write_fails"),
    Behaviour(FALSE, MinContentLen, ParsedDict(NoStr, NullSentinel, SkillsSwe), "connect_fails") }

UrlsOf(js) == {js[k].apply_url : k \in DOMAIN js}
OracleOf(k) == oracle[jobs[k].apply_url]

\* batch_processor.py started again after its run has returned, lines 244..248
StartDirectAgain ==
  /\ p_pc = "returned" /\ p_caller = "main"
  /\ first_count = NoCount
  /\ first_count' = Len(db_jobs)
  /\ p_pc' = "init"
  /\ UNCHANGED << orch_vars, db_vars, daemon_vars, oracle, sched_vars, p_caller,
                  p_args, p_results, readme, listing_fetches, filter_calls,
                  orchestrations, filt_vars, ledger_vars, store_vars, main_vars, report_vars >>

InitTwice ==
  /\ NoOrchestrator
  /\ db_jobs = NoRows
  /\ db_failed = EmptyTable
  /\ db_skills = NoRows /\ db_job_skills = NoRows
  /\ NoDaemon /\ NoLedger /\ NoStoreCall /\ NoMain
  /\ first_count = NoCount
  /\ \E n \in 0..MaxJobs :
       /\ readme = SubSeq(Listing, 1, n)
       /\ oracle \in [UrlsOf(SubSeq(Listing, 1, n)) -> Behaviours]
  /\ s_pc = "idle" /\ skip_failed = TRUE /\ stats = NoStats
  /\ p_pc = "idle" /\ p_caller = "none"
  /\ p_args = NoArgs /\ p_results = <<>>
  /\ listing_fetches = 0 /\ filter_calls = 0 /\ orchestrations = 0
  /\ f_pc = "idle" /\ f_jobs = <<>> /\ f_skip_failed = TRUE /\ new_jobs = <<>>
  /\ skipped_processed = 0 /\ skipped_failed = 0

\* the steps of the orchestrator, with every collaborator answering as the
\* oracle says for the candidate's url
NextTwice ==
  \/ \E limit \in LimitValues, bs \in 1..MaxBatchSize, mc \in 1..MaxConcurrent :
       StartDirect(limit, bs, mc)
  \/ StartDirectAgain
  \/ \E fetched \in BOOLEAN : PipelineListing(fetched)
  \/ PipelineFilter
  \/ PipelineProcess
  \/ PipelineReturns
  \/ SubmitBatch
  \/ \E k \in DOMAIN task : Admit(k)
  \/ \E k \in DOMAIN task : Block(k)
  \/ \E k \in DOMAIN task : OracleOf(k).raises /\ ScrapeRaises(k)
  \/ \E k \in DOMAIN task : ~OracleOf(k).raises /\ ScrapeReturns(k, OracleOf(k).content)
  \/ \E k \in DOMAIN task : Extract(k, OracleOf(k).parse)
  \/ \E k \in DOMAIN task : Enrich(k)
  \/ \E k \in DOMAIN task : Persist(k, OracleOf(k).persist)
  \/ GatherReturns
  \/ StatsStep
  \/ BatchReturns
  \/ SleepDone
  \/ ProcessAllReturns

SpecTwice == InitTwice /\ [][NextTwice]_vars

(***************************************************************************)
(* scheduler.py: JobScheduler.run_daemon                                   *)
(***************************************************************************)
MaxRuns == 2
MaxIntervalMinutes == 3

\* the values of interval_hours * 3600 the model starts the daemon with
Intervals == {30 * h : h \in 0..(2 * MaxIntervalMinutes)}

\* line 137: the daemon sleeps at most this long before it looks at the flag
SleepStep == 60

\* a handler that only logs
SignalHandlerOnlyLogs(r) == r

\* signal_handler, lines 103..105: the value of _running after the handler
signal_handler(r) == FALSE

\* a sleep loop that does not look at the flag
SleepLoopIgnoresFlag(ss, r) == ss > 0

\* line 136: while sleep_seconds > 0 and self._running
SleepLoopContinues(ss, r) == ss > 0 /\ r

\* run_scheduled_pipeline(daemon=True), lines 163..174, and run_daemon up to
\* its loop, lines 100..118
StartDaemon(retry, interval) ==
  /\ d_pc = "idle" /\ s_pc = "idle" /\ p_pc = "idle"
  /\ skip_failed' = ~retry
  /\ interval_seconds' = interval
  /\ running' = TRUE
  /\ run_count' = 0
  /\ d_pc' = "loop"
  /\ UNCHANGED << orch_vars, db_vars, s_pc, stats, pipe_vars, filt_vars,
                  sleep_seconds, slept, signal_at, late_sleep, rerun_vars, ledger_vars,
                  store_vars, main_vars, report_vars >>

\* line 120: while self._running
LoopCheck ==
  /\ d_pc = "loop"
  /\ d_pc' = IF running THEN "start_run" ELSE "stopped"
  /\ UNCHANGED << orch_vars, db_vars, sched_vars, pipe_vars, filt_vars, running,
                  interval_seconds, sleep_seconds, run_count, slept, signal_at,
                  late_sleep, rerun_vars, ledger_vars,
                  store_vars, main_vars, report_vars >>

\* lines 121..125: the run is counted, logged and run_once is called
DaemonRun ==
  /\ d_pc = "start_run"
  /\ run_count' = Min(run_count + 1, MaxRuns)
  /\ s_pc' = "run_once"
  /\ stats' = NoStats
  /\ d_pc' = "run"
  /\ UNCHANGED << orch_vars, db_vars, skip_failed, pipe_vars, filt_vars, running,
                  interval_seconds, sleep_seconds, slept, signal_at, late_sleep,
                  rerun_vars, ledger_vars,
                  store_vars, main_vars, report_vars >>

\* lines 127..135: run_once has returned
AfterRun ==
  /\ d_pc = "run" /\ s_pc = "returned"
  /\ IF ~running
     THEN d_pc' = "stopped" /\ sleep_seconds' = sleep_seconds
     ELSE d_pc' = "sleep_check" /\ sleep_seconds' = interval_seconds
  /\ UNCHANGED << orch_vars, db_vars, sched_vars, pipe_vars, filt_vars, running,
                  interval_seconds, run_count, slept, signal_at, late_sleep,
                  rerun_vars, ledger_vars,
                  store_vars, main_vars, report_vars >>

\* line 136, and the call of asyncio.sleep(min(60, sleep_seconds)) of line 137
SleepCheck ==
  /\ d_pc = "sleep_check"
  /\ IF SleepLoopContinues(sleep_seconds, running)
     THEN d_pc' = "sleeping" /\ slept' = Min(SleepStep, sleep_seconds)
     ELSE d_pc' = "loop" /\ slept' = 0
  /\ UNCHANGED << orch_vars, db_vars, sched_vars, pipe_vars, filt_vars, running,
                  interval_seconds, sleep_seconds, run_count, signal_at, late_sleep,
                  rerun_vars, ledger_vars,
                  store_vars, main_vars, report_vars >>

\* asyncio.sleep returns; line 138
SleepIncrement ==
  /\ d_pc = "sleeping"
  /\ sleep_seconds' = sleep_seconds - SleepStep
  /\ late_sleep' = IF signal_at # "none"
                   THEN Min(late_sleep + slept, 2 * SleepStep) ELSE late_sleep
  /\ d_pc' = "sleep_check"
  /\ UNCHANGED << orch_vars, db_vars, sched_vars, pipe_vars, filt_vars, running,
                  interval_seconds, run_count, slept, signal_at, rerun_vars, ledger_vars,
                  store_vars, main_vars, report_vars >>

\* SIGINT or SIGTERM arrives while the handler of lines 107..108 is installed;
\* Python runs the handler between two bytecodes of the main thread
Signal ==
  /\ d_pc \notin {"idle", "stopped"}
  /\ running' = signal_handler(running)
  /\ signal_at' = IF signal_at = "none" THEN d_pc ELSE signal_at
  /\ UNCHANGED << orch_vars, db_vars, sched_vars, pipe_vars, filt_vars, d_pc,
                  interval_seconds, sleep_seconds, run_count, slept, late_sleep,
                  rerun_vars, ledger_vars,
                  store_vars, main_vars, report_vars >>

InitDaemon ==
  /\ NoOrchestrator
  /\ db_jobs = NoRows
  /\ db_failed = EmptyTable
  /\ db_skills = NoRows /\ db_job_skills = NoRows
  /\ \E n \in 0..MaxListing : InitEnvironment(SubSeq(Listing, 1, n))

\* the steps of the daemon's coroutine; run_once's call of run_batch_pipeline
\* never binds, so no step of the pipeline belongs to this specification
DaemonStep ==
  \/ LoopCheck
  \/ DaemonRun
  \/ RunOnce
  \/ AfterRun
  \/ SleepCheck
  \/ SleepIncrement

NextDaemon ==
  \/ \E retry \in BOOLEAN, interval \in Intervals : StartDaemon(retry, interval)
  \/ DaemonStep
  \/ Signal

SpecDaemon == InitDaemon /\ [][NextDaemon]_vars

\* the event loop runs the daemon's coroutine whenever it can continue, and a
\* timer of asyncio.sleep expires
SpecDaemonLive == SpecDaemon /\ WF_vars(DaemonStep)

(***************************************************************************)
(* scheduler.py: main                                                      *)
(***************************************************************************)
\* the command lines the model starts main with
FlagSets ==
  [ clear_failed : BOOLEAN, show_failed : BOOLEAN, stats : BOOLEAN,
    daemon : BOOLEAN, retry_failed : BOOLEAN ]

\* a dispatch that looks at --daemon and --retry-failed first
ModeUnlessRunFlags(a) ==
  IF a.daemon \/ a.retry_failed THEN "pipeline"
  ELSE IF a.clear_failed THEN "clear_failed"
  ELSE IF a.show_failed THEN "show_failed"
  ELSE IF a.stats THEN "stats"
  ELSE "pipeline"

\* lines 238..254: the branch main takes
Mode(a) ==
  IF a.clear_failed THEN "clear_failed"
  ELSE IF a.show_failed THEN "show_failed"
  ELSE IF a.stats THEN "stats"
  ELSE "pipeline"

\* main from parse_args to the return of its mode, or to the call of
\* asyncio.run, lines 236..254
Main ==
  /\ m_pc = "start"
  /\ LET mode == Mode(args) IN
     /\ db_failed' = IF mode = "clear_failed"
                     THEN clear_failed_urls(db_failed) ELSE db_failed
     /\ printed' = IF mode = "show_failed"
                   THEN << "Failed URLs", Cardinality(get_failed_urls) >>
                   ELSE IF mode = "stats"
                   THEN << "Total jobs", Len(db_jobs), Len(db_skills) >>
                   ELSE printed
     /\ m_pc' = IF mode = "pipeline" THEN "run_scheduled_pipeline" ELSE "exited"
  /\ UNCHANGED << orch_vars, db_jobs, db_skills, db_job_skills, sched_vars,
                  pipe_vars, filt_vars, daemon_vars, rerun_vars, ledger_vars,
                  store_vars, report_vars, args >>

\* lines 254..261 with daemon=False
MainRunsOnce ==
  /\ m_pc = "run_scheduled_pipeline"
  /\ ~args.daemon
  /\ StartScheduled(args.retry_failed)

\* lines 254..261 with daemon=True
MainRunsDaemon(interval) ==
  /\ m_pc = "run_scheduled_pipeline"
  /\ args.daemon
  /\ StartDaemon(args.retry_failed, interval)

InitMain ==
  /\ NoOrchestrator
  /\ db_jobs \in {NoRows, JobsTable({UrlB})}
  /\ db_failed \in {EmptyTable, FailedTable({UrlAq, UrlB})}
  /\ db_skills = NoRows /\ db_job_skills = NoRows
  /\ NoDaemon /\ NoRerun /\ NoLedger /\ NoStoreCall
  /\ s_pc = "idle" /\ skip_failed = TRUE /\ stats = NoStats
  /\ p_pc = "idle" /\ p_caller = "none" /\ readme = SubSeq(Listing, 1, MaxListing)
  /\ p_args = NoArgs /\ p_results = <<>>
  /\ listing_fetches = 0 /\ filter_calls = 0 /\ orchestrations = 0
  /\ f_pc = "idle" /\ f_jobs = <<>> /\ f_skip_failed = TRUE /\ new_jobs = <<>>
  /\ skipped_processed = 0 /\ skipped_failed = 0
  /\ m_pc = "start" /\ args \in FlagSets /\ printed = NoOutput

\* main, and the coroutine it hands to asyncio.run; run_once's call of
\* run_batch_pipeline never binds, so no step of the pipeline belongs here
NextMain ==
  \/ Main
  \/ MainRunsOnce
  \/ \E interval \in Intervals : MainRunsDaemon(interval)
  \/ DaemonStep
  \/ Signal

SpecMain == InitMain /\ [][NextMain]_vars

(***************************************************************************)
(* db.py: save_failed_url and clear_failed_urls, called one after another  *)
(***************************************************************************)
MaxLedgerCalls == 4
RfUrls == {UrlA, UrlB}
RfErrors == {ErrScrape, ErrParsing}

\* save_failed_url(url, error): one transaction, stamped with the store's clock
RecordFailure(url, error) ==
  /\ now < MaxLedgerCalls
  /\ now' = now + 1
  /\ db_failed' = save_failed_url(db_failed, url, error, now')
  /\ rf_call' = [op |-> "save_failed_url", url |-> url, error |-> error]
  /\ rf_count' = [rf_count EXCEPT ![url] = @ + 1]
  /\ UNCHANGED << orch_vars, db_jobs, db_skills, db_job_skills, sched_vars, pipe_vars,
                  filt_vars, daemon_vars, rerun_vars, store_vars, main_vars, report_vars >>

\* clear_failed_urls()
ClearFailures ==
  /\ now < MaxLedgerCalls
  /\ now' = now + 1
  /\ db_failed' = clear_failed_urls(db_failed)
  /\ rf_call' = [op |-> "clear_failed_urls", url |-> NoStr, error |-> NoError]
  /\ rf_count' = [u \in DOMAIN rf_count |-> 0]
  /\ UNCHANGED << orch_vars, db_jobs, db_skills, db_job_skills, sched_vars, pipe_vars,
                  filt_vars, daemon_vars, rerun_vars, store_vars, main_vars, report_vars >>

InitLedger ==
  /\ NoOrchestrator
  /\ NoDaemon /\ NoRerun /\ NoStoreCall /\ NoMain
  /\ db_jobs = NoRows
  /\ db_failed = EmptyTable
  /\ db_skills = NoRows /\ db_job_skills = NoRows
  /\ now = 0 /\ rf_call = NoCall /\ rf_count = [u \in RfUrls |-> 0]
  /\ s_pc = "idle" /\ skip_failed = TRUE /\ stats = NoStats
  /\ p_pc = "idle" /\ p_caller = "none" /\ readme = <<>>
  /\ p_args = NoArgs /\ p_results = <<>>
  /\ listing_fetches = 0 /\ filter_calls = 0 /\ orchestrations = 0
  /\ f_pc = "idle" /\ f_jobs = <<>> /\ f_skip_failed = TRUE /\ new_jobs = <<>>
  /\ skipped_processed = 0 /\ skipped_failed = 0

NextLedger ==
  \/ \E url \in RfUrls, error \in RfErrors : RecordFailure(url, error)
  \/ ClearFailures

SpecLedger == InitLedger /\ [][NextLedger]_vars

(***************************************************************************)
(* db.py: save_job_data and categorize_job_title, called directly          *)
(***************************************************************************)
MaxCalls == 2

\* a parsed and enriched answer with one skill
JobData(title, skill, url) ==
  [ kind |-> "dict", job_title |-> title, company |-> CoAcme,
    skills |-> << << "languages", <<skill>> >> >>, url |-> url, location |-> "Remote" ]
StoreJobs ==
  {JobData(TitleSwe, skill, UrlA) : skill \in RawSkills}
    \cup {JobData(TitleSwe, skill, UrlB) : skill \in {SkillCpp, SkillCSlashCpp, SkillReactVue}}
    \cup {JobData(title, SkillJavascript, UrlB) : title \in CatTitles \ {NoStr, <<>>, TitleSwe}}

\* save_job_data(job_data) on a store that answers
SaveJob(job_data) ==
  /\ calls < MaxCalls
  /\ calls' = calls + 1
  /\ LET st == save_job_data(Store(db_jobs, db_skills, db_job_skills), job_data, "ok")
     IN  /\ db_jobs' = st.jobs
         /\ db_skills' = st.skills
         /\ db_job_skills' = st.job_skills
  /\ IF is_tech_related_job(job_data.job_title)
     THEN /\ c_title' = job_data.job_title
          /\ c_category' = categorize_job_title(job_data.job_title)
          /\ n_skill_name' = job_data.skills[1][2][1]
          /\ n_normalized_skills' = normalize_skill(job_data.skills[1][2][1])
     ELSE UNCHANGED << c_title, c_category, n_skill_name, n_normalized_skills >>
  /\ UNCHANGED << orch_vars, db_failed, sched_vars, pipe_vars, filt_vars, daemon_vars,
                  rerun_vars, ledger_vars, main_vars, report_vars >>

\* categorize_job_title(title)
Categorize(title) ==
  /\ calls < MaxCalls
  /\ calls' = calls + 1
  /\ c_title' = title
  /\ c_category' = categorize_job_title(title)
  /\ UNCHANGED << orch_vars, db_vars, sched_vars, pipe_vars, filt_vars, daemon_vars,
                  rerun_vars, ledger_vars, main_vars, report_vars, n_skill_name, n_normalized_skills >>

InitStore ==
  /\ NoOrchestrator
  /\ db_jobs = NoRows
  /\ db_failed = EmptyTable
  /\ db_skills = NoRows /\ db_job_skills = NoRows
  /\ InitEnvironment(<<>>)

NextStore ==
  \/ \E job_data \in StoreJobs : SaveJob(job_data)
  \/ \E title \in CatTitles : Categorize(title)

SpecStore == InitStore /\ [][NextStore]_vars

(***************************************************************************)
(* Properties of the orchestrator (specification Spec)                     *)
(***************************************************************************)
Holders == {k \in DOMAIN task : task[k] \in HoldsSlot}

\* C1: at any moment at most max_concurrent candidate pipelines hold a gate
\* slot (are fetching, extracting, enriching or persisting).
C1_GateBound == Cardinality(Holders) <= max_concurrent

\* the gate is full and a further candidate of the batch waits at it
C1_Witness ==
  /\ Cardinality(Holders) = max_concurrent
  /\ \E k \in DOMAIN task : task[k] = "Waiting"

\* C2: process_batch's result list has one result per candidate of the batch
\* and the k-th result is the k-th candidate's, whatever the completion order.
C2_ResultsInInputOrder ==
  pc = "stats" =>
    /\ Len(processed_results) = Len(batch)
    /\ \A k \in 1..Len(batch) : processed_results[k].job = batch[k]

\* two candidates completed in the reverse of their input order, one of them
\* by an exception and one of them successfully
C2_Witness ==
  /\ pc = "stats"
  /\ Len(done_order) >= 2
  /\ done_order[1] > done_order[2]
  /\ \E k \in BatchTasks : fault[k] = "fetch"
  /\ \E k \in 1..Len(batch) : processed_results[k].success

\* C3: a candidate whose pipeline met an error at any step (fetch, extract,
\* enrich, persist) ends with a FAILED result that carries an error message.
C3_ErrorGivesFailedResult ==
  \A k \in DOMAIN task :
    (task[k] \in Terminal /\ fault[k] # "none") =>
      (~task_result[k].success /\ task_result[k].error # NoError)

\* C4: processed = succeeded + failed in every state, also inside the stats loop.
C4_CountersAddUp == processed = succeeded + failed

\* the stats loop is in the middle of a batch that has both outcomes
C4_Witness ==
  /\ pc = "stats"
  /\ 0 < stat_k /\ stat_k < Len(processed_results)
  /\ \E k \in 1..Len(processed_results) : processed_results[k].success
  /\ \E k \in 1..Len(processed_results) : ~processed_results[k].success

BatchIndex(k) == (k - 1) \div batch_size

\* C5: a candidate of a later batch is submitted only after every candidate of
\* every earlier batch is terminal and its result is in all_results.
C5_BatchesSequential ==
  \A k, m \in DOMAIN task :
    (BatchIndex(m) < BatchIndex(k) /\ task[k] # "NotSubmitted") =>
      (task[m] \in Terminal /\ m <= Len(all_results))

\* a candidate of the second batch is being fetched
C5_Witness ==
  \E k \in DOMAIN task : BatchIndex(k) >= 1 /\ task[k] = "Fetching"

\* C39: the free slots of the gate and the candidates holding one always add
\* up to max_concurrent, and whenever process_batch is not running (before the
\* first batch, after any batch has returned, after process_all) every slot is
\* free and no candidate waits at the gate.
C39_SlotsReturned ==
  /\ sem_value + Cardinality(Holders) = max_concurrent
  /\ pc # "gather" =>
       (sem_value = max_concurrent /\ waiters = <<>> /\ Holders = {})

\* the second batch has returned after a successful candidate, a candidate
\* that returned FAILED on a short text and one whose fetch raised
C39_Witness ==
  /\ pc = "stats" /\ Len(batch_log) = 2
  /\ sem_value = max_concurrent
  /\ \E k, m, n \in DOMAIN task :
       /\ task[k] = "SUCCESS"
       /\ task[m] = "FAILED" /\ fault[m] = "none"
       /\ task[n] = "FAILED" /\ fault[n] = "fetch"

\* C40: process_all returns, and when it has returned every candidate of its
\* input is SUCCESS or FAILED and none waits at the gate; so every candidate
\* finishes and none waits for ever.
C40_EveryCandidateFinishes ==
  <>(/\ pc = "done"
     /\ \A k \in DOMAIN jobs : k \in DOMAIN task /\ task[k] \in Terminal
     /\ waiters = <<>>)

\* process_all has returned from a run of one batch of two candidates through
\* a gate of one slot, and both candidates have their result
C40_Witness ==
  /\ pc = "done"
  /\ Len(jobs) = 2 /\ batch_size = 2 /\ max_concurrent = 1
  /\ \A k \in DOMAIN task : task[k] \in Terminal
  /\ Len(all_results) = 2

Successes == {k \in DOMAIN all_results : all_results[k].success}

\* C38: when process_all has returned, its result list holds one result per
\* candidate, the k-th being the result of the k-th candidate; processed is the
\* number of candidates, succeeded and failed are the numbers of successful and
\* failed results; the summary was printed without a division error, and for
\* an empty input no batch was formed, the list is empty and the rate is "N/A".
C38_ProcessAllTotals ==
  pc = "done" =>
    /\ Len(all_results) = Len(jobs)
    /\ \A k \in DOMAIN jobs :
         all_results[k].job = jobs[k] /\ all_results[k] = task_result[k]
    /\ processed = Len(jobs)
    /\ succeeded = Cardinality(Successes)
    /\ failed = Len(jobs) - Cardinality(Successes)
    /\ summary.printed
    /\ summary.processed = Len(jobs) /\ summary.succeeded = Cardinality(Successes)
    /\ summary.rate # << "ZeroDivisionError" >>
    /\ jobs = <<>> =>
         (batch_log = <<>> /\ all_results = <<>> /\ summary.rate = << "N/A" >>)

\* three candidates in two batches, one of them successful: the summary
\* reports 33.3%
C38_Witness ==
  /\ pc = "done"
  /\ Len(jobs) = 3 /\ Len(batch_log) = 2
  /\ succeeded = 1 /\ failed = 2
  /\ summary.rate = << "%", 333 >>

\* the steps of process_single_job and the steps that can follow each
StepOrder ==
  { << "Fetching", "Extracting" >>, << "Extracting", "Enriching" >>,
    << "Enriching", "Persisting" >>, << "Persisting", "SUCCESS" >> }
    \cup { << step, "FAILED" >> : step \in HoldsSlot }
Steps(k) == << task[k], task'[k] >>
FailsNow(k) == task[k] # "FAILED" /\ task'[k] = "FAILED"

\* C35: a candidate is past its fetch only with a fetched text of at least 500
\* characters, and past its extraction only with a non-empty extraction
\* result; a candidate leaves a step only for the next step or for FAILED and
\* never leaves SUCCESS or FAILED; the store is written only by a candidate
\* that is persisting, and never in the step in which a candidate fails.
C35_StepOrder ==
  /\ [](\A k \in DOMAIN task :
         /\ task[k] \in {"Extracting", "Enriching", "Persisting"} =>
              (cur = k /\ html_content # NoContent /\ html_content >= 500)
         /\ task[k] \in {"Enriching", "Persisting"} => parsed.kind # "none")
  /\ [][\A k \in DOMAIN task :
          /\ (task[k] \in HoldsSlot /\ task'[k] # task[k]) => Steps(k) \in StepOrder
          /\ task[k] \in Terminal => task'[k] = task[k]
          /\ FailsNow(k) => db_vars' = db_vars]_vars
  /\ [][db_vars' # db_vars => (cur # 0 /\ task[cur] = "Persisting")]_vars

\* one candidate failed on a text of 499 characters, one on an empty
\* extraction result, and a third has written its row
C35_Witness ==
  \E k, m, n \in DOMAIN task :
    /\ task[k] = "FAILED" /\ task_result[k].error = ErrTooShort(MinContentLen - 1)
    /\ task[m] = "FAILED" /\ task_result[m].error = ErrParsing
    /\ task[n] = "SUCCESS" /\ db_jobs # NoRows

\* the batch whose results were just collected is not the last one
MoreBatches == i + batch_size < Len(jobs)

\* C34 as stated: for every delay, process_all is asleep only after a batch
\* that is not the last, and it goes from the collection of a batch's results
\* back to its loop without sleeping only after the last batch.
C34_AsStated ==
  /\ [](pc = "sleep" => MoreBatches)
  /\ [][(pc = "stats" /\ pc' = "loop") => ~MoreBatches]_vars

\* C34 (amended): with a delay above 0 the same holds; with a delay of 0
\* process_all never sleeps.
C34_WaitsBetweenBatches ==
  /\ [](pc = "sleep" => (MoreBatches /\ delay_between_batches > 0))
  /\ [][(pc = "stats" /\ pc' = "loop" /\ delay_between_batches > 0)
          => ~MoreBatches]_vars

\* process_all sleeps after the first of two batches, whose results it holds
C34_Witness ==
  /\ pc = "sleep"
  /\ delay_between_batches > 0
  /\ Len(batch_log) = 1
  /\ Len(all_results) = batch_size
  /\ Len(jobs) > batch_size

RECURSIVE Flatten(_)
Flatten(ss) == IF ss = <<>> THEN <<>> ELSE Head(ss) \o Flatten(Tail(ss))

CeilDiv(n, b) == CHOOSE q \in 0..n : q * b >= n /\ (q = 0 \/ (q - 1) * b < n)

\* C6: the batches are consecutive slices of the input, all but the last of
\* exactly batch_size candidates, none empty; when process_all returns there
\* are ceil(N / B) of them and together they are the input.
C6_Partition ==
  /\ Flatten(batch_log) = SubSeq(jobs, 1, Len(Flatten(batch_log)))
  /\ \A b \in 1..Len(batch_log) :
       /\ Len(batch_log[b]) >= 1
       /\ b < Len(batch_log) => Len(batch_log[b]) = batch_size
  /\ pc = "done" =>
       /\ Len(batch_log) = CeilDiv(Len(jobs), batch_size)
       /\ Flatten(batch_log) = jobs

\* process_all returned after a last batch shorter than batch_size
C6_Witness ==
  /\ pc = "done"
  /\ Len(batch_log) >= 2
  /\ Len(batch_log[Len(batch_log)]) < batch_size

SoftFailure(r) ==
  /\ ~r.success
  /\ r.error \in {ErrParsing, ErrTooShort(NoContent), ErrTooShort(MinContentLen - 1)}

\* C8: after a batch, every candidate that failed on short or missing content
\* or on extraction has a row in failed_urls.
C8_FailureIsRecorded ==
  \A k \in 1..Len(all_results) :
    SoftFailure(all_results[k]) => all_results[k].job.apply_url \in FailedUrls(db_failed)

(***************************************************************************)
(* Properties of filter_new_jobs (specification SpecFilter)                *)
(***************************************************************************)
LedgerHas == JobUrls(db_jobs) \cup FailedUrls(db_failed)
Returned == {new_jobs[k].apply_url : k \in 1..Len(new_jobs)}

\* v is u followed by a query string
WithQuery(u, v) ==
  /\ Len(v) > Len(u) + 1
  /\ SubSeq(v, 1, Len(u)) = u
  /\ v[Len(u) + 1] = "?"

\* C7 as stated, read for a call that skips failed urls: no returned candidate
\* has a url that is a ledger url u, is u followed by a query string, or equals
\* u once the query string of either is stripped.
C7_AsStated ==
  (f_pc = "returned" /\ f_skip_failed) =>
    \A u \in LedgerHas, v \in Returned :
      ~(v = u \/ WithQuery(u, v) \/ SplitQuery(v) = SplitQuery(u))

\* C7 (amended): a url of jobs, or of failed_urls when failed urls are skipped,
\* excludes every candidate whose url, as given or cut at its first '?', is it.
C7_KnownUrlExcluded ==
  f_pc = "returned" =>
    \A u \in SkipUrls(JobUrls(db_jobs), FailedUrls(db_failed), f_skip_failed), v \in Returned :
      v # u /\ SplitQuery(v) # u

\* the ledger knows a without a query, the candidates are a?q and one unknown
\* url, and only the unknown one is returned
C7_Witness ==
  /\ f_pc = "returned"
  /\ UrlA \in SkipUrls(JobUrls(db_jobs), FailedUrls(db_failed), f_skip_failed)
  /\ \E k \in 1..Len(f_jobs) : f_jobs[k].apply_url = UrlAq
  /\ Len(new_jobs) = 1
  /\ Len(f_jobs) = 2

\* the ways of picking Len(sub) positions of whole, in ascending order, that
\* hold the elements of sub
Embeddings(sub, whole) ==
  { idx \in [DOMAIN sub -> DOMAIN whole] :
      /\ \A a, b \in DOMAIN sub : a < b => idx[a] < idx[b]
      /\ \A a \in DOMAIN sub : whole[idx[a]] = sub[a] }

\* C32: the list filter_new_jobs returns is a sub-sequence of the list it was
\* given (its elements are elements of the input, at ascending positions, each
\* position used once), and the call leaves the input list as it was.
C32_ReturnsSubSequence ==
  /\ [](f_pc = "returned" => Embeddings(new_jobs, f_jobs) # {})
  /\ [][f_jobs' = f_jobs]_vars

\* three candidates, the middle one known, the other two different and both
\* returned
C32_Witness ==
  /\ f_pc = "returned"
  /\ Len(f_jobs) = 3
  /\ Len(new_jobs) = 2
  /\ new_jobs[1] # new_jobs[2]
  /\ new_jobs = << f_jobs[1], f_jobs[3] >>

\* the positions of the input whose url, as given or cut at its first '?', is
\* a url of the table tbl_urls
KnownTo(tbl_urls) ==
  { k \in DOMAIN f_jobs : \/ f_jobs[k].apply_url \in tbl_urls
                          \/ SplitQuery(f_jobs[k].apply_url) \in tbl_urls }

\* C37: when filter_new_jobs returns, the two skip counts and the length of
\* the returned list add up to the length of the input and neither count is
\* negative; the processed count is the number of candidates known to jobs,
\* and the failed count is the number of skipped candidates not known to
\* jobs, so a candidate known to both tables is counted as processed.
C37_CountsPartition ==
  f_pc = "returned" =>
    /\ skipped_processed + skipped_failed + Len(new_jobs) = Len(f_jobs)
    /\ skipped_processed >= 0 /\ skipped_failed >= 0
    /\ skipped_processed = Cardinality(KnownTo(JobUrls(db_jobs)))
    /\ skipped_failed =
         IF f_skip_failed
         THEN Cardinality(KnownTo(FailedUrls(db_failed)) \ KnownTo(JobUrls(db_jobs)))
         ELSE 0

\* a call that skips failed urls: one candidate is known to both tables
\* through its query-stripped url, one to failed_urls alone, one to neither
C37_Witness ==
  /\ f_pc = "returned" /\ f_skip_failed
  /\ Len(f_jobs) = 3
  /\ \E k \in KnownTo(JobUrls(db_jobs)) \cap KnownTo(FailedUrls(db_failed)) :
       f_jobs[k].apply_url \notin JobUrls(db_jobs)
  /\ skipped_processed = 1
  /\ skipped_failed = 1
  /\ Len(new_jobs) = 1

(***************************************************************************)
(* Properties of the scheduler (specification SpecSched)                   *)
(***************************************************************************)
\* C9: a call of run_once has run the pipeline exactly once (one listing
\* fetch, one filtering with the scheduler's skip_failed, one orchestration)
\* and returns a success dict with the counts and the elapsed time.
C9_RunOnceRunsPipelineOnce ==
  s_pc = "returned" =>
    /\ stats.success
    /\ {"jobs_processed", "jobs_succeeded", "elapsed_seconds"} \subseteq stats.keys
    /\ listing_fetches = 1
    /\ filter_calls = 1 /\ f_skip_failed = skip_failed
    /\ orchestrations = 1

FailedOnly(url) == url \in FailedUrls(db_failed) /\ url \notin JobUrls(db_jobs)

\* C10: a run started with retry-failed has processed again every listed
\* candidate whose url is in failed_urls and not in jobs.
C10_RetryProcessesFailed ==
  (s_pc = "returned" /\ ~skip_failed) =>
    \A k \in 1..Len(readme) :
      FailedOnly(readme[k].apply_url) =>
        \E r \in 1..Len(all_results) : all_results[r].job = readme[k]

(***************************************************************************)
(* Properties of the table jobs (specifications SpecDup and Spec)          *)
(***************************************************************************)
UniqueUrl(tbl) == \A m, n \in DOMAIN tbl : m # n => tbl[m].url # tbl[n].url
RowOf(tbl, url) == tbl[CHOOSE n \in DOMAIN tbl : tbl[n].url = url]

Wrote(k) ==
  /\ task_result[k].success
  /\ fault[k] = "none"
  /\ is_tech_related_job(task_result[k].parsed_data.job_title)
Writers(url) ==
  SelectSeq(done_order, LAMBDA k : Wrote(k) /\ task_result[k].parsed_data.url = url)

C20_SuccessMeansPersisted ==
  \A k \in 1..Len(all_results) :
    (all_results[k].success /\ is_tech_related_job(all_results[k].parsed_data.job_title)) =>
      all_results[k].parsed_data.url \in JobUrls(db_jobs)

(***************************************************************************)
(* Properties of save_job_data in a run (specification Spec)               *)
(***************************************************************************)
\* the candidates whose save has committed, and those whose save met an error
Committed(k) == task[k] = "SUCCESS" /\ Wrote(k)
SaveFailed(k) == task[k] \in Terminal /\ fault[k] = "persist"
RolledBack(k) == task[k] = "SUCCESS" /\ fault[k] = "persist"

\* the clean names of a payload, and the rows a committed save has
NamesOf(job_data) ==
  LET pairs == CleanSkills(job_data.skills) IN {pairs[n][2] : n \in DOMAIN pairs}
LinksOf(job_data) == {<<job_data.url, name>> : name \in NamesOf(job_data)}
StoredLinks ==
  { <<db_jobs[db_job_skills[n][1]].url, db_skills[db_job_skills[n][2]].name>> :
      n \in DOMAIN db_job_skills }

\* C21: in a run that began with empty tables, the rows of jobs, skills and
\* job_skills are those of the saves that committed and of no other save: a
\* save that met an error has left no row, and every save that committed has
\* all of its rows.
C21_RollbackPerCandidate ==
  LET done == {k \in DOMAIN task : Committed(k)} IN
  /\ JobUrls(db_jobs) = {task_result[k].parsed_data.url : k \in done}
  /\ SkillNames(db_skills) = UNION {NamesOf(task_result[k].parsed_data) : k \in done}
  /\ StoredLinks = UNION {LinksOf(task_result[k].parsed_data) : k \in done}

\* two candidates of one batch: the save of one was rolled back after it had
\* written a job, skills and links, the save of the other committed
C21_Witness ==
  \E k, m \in DOMAIN task :
    /\ BatchIndex(k) = BatchIndex(m)
    /\ RolledBack(k) /\ Committed(m)
    /\ task_result[k].parsed_data.skills = SkillsDevOps
    /\ task_result[m].parsed_data.skills = SkillsSwe
    /\ task_result[k].parsed_data.url \notin JobUrls(db_jobs)
    /\ <<"D","o","c","k","e","r">> \notin SkillNames(db_skills)
    /\ <<"R","e","a","c","t">> \in SkillNames(db_skills)
    /\ Len(db_job_skills) = 3

\* the candidates that reached save_job_data with a denylisted title
Dropped(k) ==
  /\ task[k] \in Terminal
  /\ task_result[k].parsed_data # NoData
  /\ task_result[k].parsed_data.job_title = TitleNurse

\* C22: the step in which a candidate titled "Clinical Nurse" returns from
\* save_job_data writes no row of jobs, skills, job_skills or failed_urls; the
\* candidate's result is not a FAILED one and the failed counter counts FAILED
\* results only.
C22_NonTechNeverPersisted ==
  /\ [](\A k \in DOMAIN task : Dropped(k) =>
           /\ task[k] # "FAILED"
           /\ task_result[k].parsed_data.url \notin JobUrls(db_jobs)
           /\ task_result[k].parsed_data.url \notin get_failed_urls)
  /\ [](failed <= Cardinality({k \in DOMAIN task : task[k] = "FAILED"}))
  /\ [][ \A k \in DOMAIN task :
           (task[k] = "Persisting" /\ parsed.job_title = TitleNurse /\ task'[k] \in Terminal)
             => /\ Dropped(k)'
                /\ UNCHANGED db_vars ]_vars

\* a run of three candidates has ended: the nurse posting was fetched,
\* extracted and dropped, one candidate was stored and one failed
C22_Witness ==
  /\ pc = "done"
  /\ Len(jobs) = 3
  /\ Dropped(2)
  /\ task_result[2].parsed_data.skills = SkillsSwe
  /\ Len(db_jobs) = 1
  /\ failed = 1

\* C23: a candidate dropped for its non-tech title has neither a SUCCESS nor a
\* FAILED result, and neither counter counts it: succeeded counts only the
\* SUCCESS results of candidates that were not dropped.
C23_DropIsThirdOutcome ==
  /\ \A k \in DOMAIN task : Dropped(k) => task[k] \notin {"SUCCESS", "FAILED"}
  /\ succeeded <= Cardinality({k \in DOMAIN task : task[k] = "SUCCESS" /\ ~Dropped(k)})
  /\ failed <= Cardinality({k \in DOMAIN task : task[k] = "FAILED" /\ ~Dropped(k)})

\* C25: a candidate whose write of the jobs table (the dedup state) met an
\* error is not reported as a success, no candidate of a later batch is
\* submitted after it, and the run does not end as a completed run.
C25_LedgerFailureIsFatal ==
  \A k \in DOMAIN task :
    SaveFailed(k) =>
      /\ task[k] = "FAILED"
      /\ \A m \in DOMAIN task : BatchIndex(m) > BatchIndex(k) => task[m] = "NotSubmitted"
      /\ pc # "done"

(***************************************************************************)
(* Properties of the enrichment (specification SpecEnrich)                 *)
(***************************************************************************)
\* an extracted value that is present: not missing, not empty, not "null"
Present(v) == v # NoStr /\ v # <<>> /\ v # NullSentinel

RuleMatches(n, title_lower) ==
  \E keyword \in JOB_CATEGORIES[n][2] : Contains(title_lower, keyword)
MatchingRules(title_lower) == {n \in DOMAIN JOB_CATEGORIES : RuleMatches(n, title_lower)}

\* C27: what categorize_job_title returned is "Other" for an empty title and
\* for a title no rule matches, and else the category of the matching rule with
\* the least index; "DevOps Engineer" is DevOps / Infrastructure, and a row of
\* jobs has the category of the title it was last saved with.
C27_FirstRuleWins ==
  /\ c_category # "none" =>
       IF ~Truthy(c_title) THEN c_category = "Other"
       ELSE LET matching == MatchingRules(Lower(c_title)) IN
            IF matching = {} THEN c_category = "Other"
            ELSE \E n \in matching :
                   /\ \A m \in matching : n <= m
                   /\ c_category = JOB_CATEGORIES[n][1]
  /\ c_title = TitleDevOps => c_category = "DevOps / Infrastructure"
  /\ c_title = TitleDataScientist => c_category = "Data Science"
  /\ c_title = TitleTester => c_category = "Other"
  /\ \A n \in DOMAIN db_jobs :
       db_jobs[n].raw_skills_data.job_title = TitleDevOps =>
         db_jobs[n].category = "DevOps / Infrastructure"

\* "DevOps Engineer" was categorized: rules 4 and 5 match it, and its row has
\* the category of rule 4
C27_Witness ==
  /\ c_title = TitleDevOps
  /\ MatchingRules(Lower(c_title)) = {4, 5}
  /\ c_category = JOB_CATEGORIES[4][1]
  /\ \E n \in DOMAIN db_jobs :
       db_jobs[n].title = TitleDevOps /\ db_jobs[n].category = "DevOps / Infrastructure"

\* the canonical name of a raw string whose trimmed, lower-cased form is a key
IsKey(raw) == Lower(Strip(raw)) \in AliasKeys
Canonical(raw) == AliasOf(Lower(Strip(raw)))

\* C28: for a skill name whose trimmed, lower-cased form is a key of
\* SKILL_ALIASES, normalize_skill returned the one-element list of the
\* canonical name: "javascript" gives JavaScript, "c++" and "c" give C/C++,
\* "r" gives R, "ci/cd" gives CI/CD unsplit, " Python " gives Python.
C28_AliasFirst ==
  /\ (n_skill_name # NoStr /\ IsKey(n_skill_name)) =>
       n_normalized_skills = <<Canonical(n_skill_name)>>
  /\ n_skill_name = SkillJavascript =>
       n_normalized_skills = << <<"J","a","v","a","S","c","r","i","p","t">> >>
  /\ n_skill_name = SkillCpp => n_normalized_skills = << <<"C","/","C","+","+">> >>
  /\ n_skill_name = SkillC => n_normalized_skills = << <<"C","/","C","+","+">> >>
  /\ n_skill_name = SkillR => n_normalized_skills = << <<"R">> >>
  /\ n_skill_name = SkillCiCd => n_normalized_skills = << <<"C","I","/","C","D">> >>
  /\ n_skill_name = SkillPythonPadded =>
       n_normalized_skills = << <<"P","y","t","h","o","n">> >>

\* the one-character name "c" was normalized and stored under its canonical name
C28_Witness ==
  /\ n_skill_name = SkillC
  /\ n_normalized_skills = << <<"C","/","C","+","+">> >>
  /\ SkillNames(db_skills) = { <<"C","/","C","+","+">>, <<"C","I","/","C","D">> }

\* the strings normalize_skill splits
Splits(skill) ==
  /\ Lower(skill) \notin AliasKeys
  /\ Len(skill) >= 2
  /\ \A term \in skip_terms \cup keep_as_single : ~Contains(Lower(skill), term)
  /\ Contains(skill, <<"/">>)
  /\ Len(skill) < 20

\* the trimmed fragments of at least two characters, each alias-mapped
MappedParts(skill) ==
  LET raw == Split(skill, "/")
      long == SelectSeq([k \in DOMAIN raw |-> Strip(raw[k])], LAMBDA part : Len(part) > 1)
  IN  [k \in DOMAIN long |->
         IF Lower(long[k]) \in AliasKeys THEN AliasOf(Lower(long[k])) ELSE long[k]]

\* C29: for a skill name that is no alias, has at least 2 characters, matches
\* neither term list, contains "/" and has fewer than 20 characters,
\* normalize_skill returned its trimmed fragments of at least 2 characters,
\* alias-mapped and in their order, or the string itself when no fragment is
\* left: "React/Vue" gives React, Vue; "node / React" gives Node.js, React;
\* "a/b" gives "a/b"; and "problem solving" gives the empty list.
C29_SplitPath ==
  /\ (n_skill_name # NoStr /\ Splits(Strip(n_skill_name))) =>
       n_normalized_skills =
         IF MappedParts(Strip(n_skill_name)) = <<>> THEN <<Strip(n_skill_name)>>
         ELSE MappedParts(Strip(n_skill_name))
  /\ n_skill_name = SkillReactVue =>
       n_normalized_skills = << <<"R","e","a","c","t">>, <<"V","u","e">> >>
  /\ n_skill_name = SkillNodeReact =>
       n_normalized_skills = << <<"N","o","d","e",".","j","s">>, <<"R","e","a","c","t">> >>
  /\ n_skill_name = SkillAB => n_normalized_skills = <<SkillAB>>
  /\ n_skill_name = SkillProblemSolving => n_normalized_skills = <<>>

\* "node / React" was split, its fragments trimmed and mapped, and both
\* names were stored after the unsplit names of an earlier save
C29_Witness ==
  /\ n_skill_name = SkillNodeReact
  /\ Len(n_normalized_skills) = 2
  /\ Len(db_skills) = 3
  /\ db_skills[1].name = SkillAB
  /\ db_skills[2].name = <<"N","o","d","e",".","j","s">>
  /\ db_skills[3].name = <<"R","e","a","c","t">>

\* the rows of job_skills that link a job of the table to the skill name
LinksTo(name) ==
  {n \in DOMAIN db_job_skills : db_skills[db_job_skills[n][2]].name = name}

\* C30: for "C/C++" normalize_skill returned the one-element list of
\* "C/C++" (the fragment "C" is shorter than 2 characters and is dropped,
\* "C++" maps to C/C++), and no job is linked to a skill more than once.
C30_OneCanonicalEntry ==
  /\ n_skill_name = SkillCSlashCpp =>
       /\ n_normalized_skills = << <<"C","/","C","+","+">> >>
       /\ LinksTo(<<"C","/","C","+","+">>) # {}
  /\ \A n, m \in DOMAIN db_job_skills : db_job_skills[n] = db_job_skills[m] => n = m

\* C30 as stated: for "C/C++" normalize_skill returned the canonical name
\* twice, and no job is linked to a skill more than once.
C30_AsStated ==
  /\ n_skill_name = SkillCSlashCpp =>
       n_normalized_skills = << <<"C","/","C","+","+">>, <<"C","/","C","+","+">> >>
  /\ \A n, m \in DOMAIN db_job_skills : db_job_skills[n] = db_job_skills[m] => n = m

\* "C/C++" was saved for a job that an earlier save had linked to C/C++
\* already: the job has one link to the one skill
C30_Witness ==
  /\ n_skill_name = SkillCSlashCpp
  /\ n_normalized_skills = << <<"C","/","C","+","+">> >>
  /\ Len(db_jobs) = 1
  /\ db_jobs[1].raw_skills_data.skills[1][2] = <<SkillCSlashCpp>>
  /\ SkillNames(db_skills) = { <<"C","/","C","+","+">> }
  /\ db_job_skills = << <<1, 1>> >>

\* C31: no two rows of the table skills have names that are equal ignoring
\* case.
C31_OneCasingPerSkill ==
  \A n, m \in DOMAIN db_skills :
    Lower(db_skills[n].name) = Lower(db_skills[m].name) => n = m

\* the candidates of the whole listing that the filter lets through
Survivors ==
  SelectSeq(readme, LAMBDA job :
    /\ job.apply_url \notin JobUrls(db_jobs) \cup FailedUrls(db_failed)
    /\ SplitQuery(job.apply_url) \notin JobUrls(db_jobs) \cup FailedUrls(db_failed))

\* C36: a run of run_batch_pipeline with limit L hands to process_all exactly
\* min(L, number of candidates of the listing that survive the filter)
\* candidates.
C36_LimitCapsNewJobs ==
  [][(p_pc = "filter" /\ p_pc' # "filter" /\ p_args.limit # NoLimit) =>
       Len(new_jobs') = Min(p_args.limit, Len(Survivors))]_vars

(***************************************************************************)
(* Properties of main (specification SpecMain)                             *)
(***************************************************************************)
ModeGiven == args.clear_failed \/ args.show_failed \/ args.stats

\* C33: when main is started with --stats, --clear-failed or --show-failed
\* (with or without --daemon and --retry-failed) it does what the first of
\* --clear-failed, --show-failed, --stats asks for and returns: run_once is
\* never called, the daemon loop is never entered, the pipeline fetches no
\* listing and submits no candidate, and the table jobs is never written.
C33_ModesSkipPipeline ==
  /\ [](ModeGiven =>
         /\ m_pc \in {"start", "exited"}
         /\ s_pc = "idle" /\ d_pc = "idle" /\ p_pc = "idle" /\ pc = "idle"
         /\ listing_fetches = 0 /\ orchestrations = 0 /\ task = <<>>
         /\ stats = NoStats)
  /\ []((ModeGiven /\ m_pc = "exited") =>
         IF args.clear_failed THEN db_failed = EmptyTable /\ printed = NoOutput
         ELSE IF args.show_failed
         THEN printed = << "Failed URLs", Cardinality(FailedUrls(db_failed)) >>
         ELSE printed = << "Total jobs", Len(db_jobs), Len(db_skills) >>)
  /\ [][ModeGiven => db_jobs' = db_jobs]_vars

\* main was started with --stats --daemon --retry-failed on a store with a job
\* and has returned after printing the statistics
C33_Witness ==
  /\ m_pc = "exited"
  /\ args.stats /\ args.daemon /\ args.retry_failed
  /\ ~args.clear_failed /\ ~args.show_failed
  /\ printed = << "Total jobs", 1, 0 >>

(***************************************************************************)
(* Properties of the failed_urls table (specification SpecLedger)          *)
(***************************************************************************)
FailedRowOf(tbl, url) == tbl[CHOOSE n \in DOMAIN tbl : tbl[n].url = url]
OtherFailedRows(tbl, url) == SelectSeq(tbl, LAMBDA row : row.url # url)

\* C24: failed_urls has at most one row per url, and the row's attempts is the
\* number of save_failed_url calls for the url since the table was cleared (no
\* row when there was none). A call for a url without a row adds a row with
\* attempts 1 and the call's error; a call for a url with a row adds 1 to its
\* attempts and overwrites error and last_attempt; the other rows stay.
C24_RecordFailureUpserts ==
  /\ [](\A n, m \in DOMAIN db_failed : db_failed[n].url = db_failed[m].url => n = m)
  /\ [](\A u \in DOMAIN rf_count :
           IF rf_count[u] = 0 THEN u \notin FailedUrls(db_failed)
           ELSE /\ u \in FailedUrls(db_failed)
                /\ FailedRowOf(db_failed, u).attempts = rf_count[u])
  /\ [][ (now' = now + 1 /\ rf_call'.op = "save_failed_url") =>
           LET u == rf_call'.url
               after == FailedRowOf(db_failed', u)
           IN  /\ OtherFailedRows(db_failed', u) = OtherFailedRows(db_failed, u)
               /\ after.error = rf_call'.error
               /\ after.last_attempt = now'
               /\ IF u \in FailedUrls(db_failed)
                  THEN /\ after.attempts = FailedRowOf(db_failed, u).attempts + 1
                       /\ after.created_at = FailedRowOf(db_failed, u).created_at
                       /\ Len(db_failed') = Len(db_failed)
                  ELSE /\ after.attempts = 1
                       /\ Len(db_failed') = Len(db_failed) + 1 ]_vars

\* a url was recorded a second time, with another error, after the other url
\* had got its own row
C24_Witness ==
  /\ rf_call = [op |-> "save_failed_url", url |-> UrlA, error |-> ErrParsing]
  /\ UrlA \in FailedUrls(db_failed) /\ UrlB \in FailedUrls(db_failed)
  /\ FailedRowOf(db_failed, UrlA) =
       [url |-> UrlA, error |-> ErrParsing, attempts |-> 2, created_at |-> 2,
        last_attempt |-> now]
  /\ FailedRowOf(db_failed, UrlB).attempts = 1
  /\ FailedRowOf(db_failed, UrlB).created_at = 3
  /\ now = 4

(***************************************************************************)
(* Properties of the daemon (specifications SpecDaemon and SpecDaemonLive) *)
(***************************************************************************)
\* C11: run_once never lets an exception out: a run in which the pipeline
\* raised has returned a dict with success false and the error, and the
\* caller goes on.
C11_RunOnceNeverRaises ==
  /\ s_pc # "raised"
  /\ (s_pc = "returned" /\ p_pc \in {"idle", "raised"}) =>
       /\ ~stats.success
       /\ "error" \in stats.keys
       /\ stats.error \in ExceptionInstances

\* the daemon sleeps towards its next run after a run that returned a failure
C11_Witness ==
  /\ d_pc = "sleeping"
  /\ s_pc = "returned"
  /\ stats = FailureStats(ErrTypeError)

\* C12: a call of run_once begins only while the stop flag is not set.
C12_NoRunAfterStop == [][(d_pc' = "run" /\ d_pc # "run") => running]_vars

\* C13: after a signal the daemon reaches Stopped, and when it has stopped the
\* run it had started has returned its stats.
C13_StopsAfterSignal ==
  /\ (signal_at # "none") ~> (d_pc = "stopped")
  /\ []((d_pc = "stopped" /\ run_count > 0) => (s_pc = "returned" /\ stats # NoStats))

\* the signal arrived during a run; the run returned and the daemon stopped
C13_Witness ==
  /\ d_pc = "stopped"
  /\ signal_at = "run"
  /\ s_pc = "returned" /\ stats # NoStats

\* C14: no sleep of the daemon is longer than 60 seconds, and after a signal
\* that arrives in the sleep loop at most one sleep ends before the daemon
\* stops, without another run.
C14_SleepInterruptible ==
  /\ slept <= SleepStep
  /\ signal_at \in {"sleep_check", "sleeping"} =>
       /\ late_sleep <= SleepStep
       /\ d_pc \in {"sleep_check", "sleeping", "loop", "stopped"}

\* the signal arrived during a sleep; the daemon stopped after that sleep with
\* more than a minute of the interval left
C14_Witness ==
  /\ d_pc = "stopped"
  /\ signal_at = "sleeping"
  /\ late_sleep = SleepStep
  /\ sleep_seconds > SleepStep

====
